---- MODULE Spec2Model ----
(***************************************************************************)
(* A model of the game-tree search engines of the repository:              *)
(*   - Minimax with alpha-beta pruning and a value cache (src/minimax.py), *)
(*   - MinimaxIDS, the time-bounded iterative deepening controller,        *)
(*   - MCTS (src/mcts/mcts.py) over the MNK game (applications/mnk.py).    *)
(* Python values are encoded as follows: a float is an integer, +inf and   *)
(* -inf are the integers PosInf and NegInf (larger in magnitude than any   *)
(* evaluation), and None is the integer NoneVal. Truthy(x) is Python's     *)
(* bool(x) on such a value: None and 0 are falsy, everything else (the     *)
(* infinities included) is truthy.                                         *)
(***************************************************************************)
EXTENDS Integers, Sequences, FiniteSets, TLC

VARIABLES
  mm,        \* the Minimax engine object (self): depth, evaluationFunction,
             \* expansionPolicy, toCache, cache, toAlphaBetaPrune
  mmRet,     \* what the last Minimax.search call was given and returned
  ids,       \* the MinimaxIDS engine object of the controller (parent process)
  ctl,       \* MinimaxIDS.search in the parent: position, argument, action
  child,     \* the spawned process running _search on its copy of the engine
  queue,     \* the manager queue of actions shared by parent and child
  clock,     \* wall-clock time since the search call, in ticks
  passes,    \* history: the depth and action of every pass put on the queue
  game,      \* the MNK state object the caller holds and hands to MCTS.search,
             \* as it was when the call was made
  tree,      \* the MCTS tree: the Node object at every path of actions from
             \* the root (state, numVisits, utilities, children in dict order)
  mcts,      \* MCTS.search: position, arguments, iterCnt, bestActions, result
  mnk        \* the last method called on the MNK object `game`: its
             \* arguments, the object before the call, what it returned

mmVars == << mm, mmRet >>
idsVars == << ids, ctl, child, queue, clock, passes >>
mctsVars == << game, tree, mcts, mnk >>
vars ==
  << mm, mmRet, ids, ctl, child, queue, clock, passes, game, tree, mcts, mnk >>

\* The parts of the state a specification does not use stay as they are here
IdleMinimax == mm = "unused" /\ mmRet = "unused"
IdleIDS ==
  /\ ids = "unused" /\ ctl = "unused" /\ child = "unused"
  /\ queue = << >> /\ clock = 0 /\ passes = << >>
IdleMCTS ==
  game = "unused" /\ tree = << >> /\ mcts = "unused" /\ mnk = "unused"

----------------------------------------------------------------------------
(* Generic helpers *)

Max(a, b) == IF a >= b THEN a ELSE b
Min(a, b) == IF a <= b THEN a ELSE b

PosInf == 1000
NegInf == -1000
NoneVal == 7777

Truthy(x) == x # NoneVal /\ x # 0

\* The elements of a list
Range(xs) == { xs[i] : i \in 1..Len(xs) }

\* The value of an expression, evaluated once: Only({e(x) : x \in {v}}) is
\* e(v) with v computed a single time
Only(S) == CHOOSE x \in S : TRUE

----------------------------------------------------------------------------
(* The State contract (src/mcts/core/state.py), as implemented by a small  *)
(* caller-supplied game whose states compare and hash structurally.  The   *)
(* game is a DAG: the state T is reached along three different paths at    *)
(* the same depth, so that cache entries are hit; L1, M, N and the t's are *)
(* terminal.                                                               *)

GameMoves ==
  [ r  |-> << [act |-> "a", to |-> "A"], [act |-> "b", to |-> "B"],
              [act |-> "c", to |-> "C"] >>,
    A  |-> << [act |-> "l", to |-> "L1"], [act |-> "t", to |-> "T"] >>,
    B  |-> << [act |-> "m", to |-> "M"], [act |-> "t", to |-> "T"] >>,
    C  |-> << [act |-> "t", to |-> "T"], [act |-> "n", to |-> "N"] >>,
    T  |-> << [act |-> "x", to |-> "t1"], [act |-> "y", to |-> "t2"] >>,
    L1 |-> << >>, M |-> << >>, N |-> << >>, t1 |-> << >>, t2 |-> << >> ]

GameStates == DOMAIN GameMoves

\* State.getActions
getActions(state) ==
  [i \in 1..Len(GameMoves[state]) |-> GameMoves[state][i].act]

\* State.takeAction (preserveState=True: the argument is left alone)
takeAction(state, action) ==
  LET i == CHOOSE j \in 1..Len(GameMoves[state]) : GameMoves[state][j].act = action
  IN GameMoves[state][i].to

\* State.isTerminal
isTerminal(state) == Len(GameMoves[state]) = 0

----------------------------------------------------------------------------
(* Minimax (src/minimax.py) *)

EmptyCache == << >>

InCache(cache, state, depth) == <<state, depth>> \in DOMAIN cache

\* self.evaluationFunction(state, depth): a table chosen by the caller
evaluationFunction(self, state, depth) == self.evaluationFunction[state]

\* sorted(actions, key, reverse) is stable: equal keys keep their order,
\* also under reverse=True.  key maps each action to its sort key.
RECURSIVE sortedInsert(_, _, _, _)
sortedInsert(done, x, key, reverse) ==
  IF done = << >> THEN << x >>
  ELSE IF (IF reverse THEN key[x] > key[Head(done)] ELSE key[x] < key[Head(done)])
       THEN << x >> \o done
       ELSE << Head(done) >> \o sortedInsert(Tail(done), x, key, reverse)

RECURSIVE sorted(_, _, _)
sorted(actions, key, reverse) ==
  IF actions = << >> THEN << >>
  ELSE sortedInsert(sorted(SubSeq(actions, 1, Len(actions) - 1), key, reverse),
                    actions[Len(actions)], key, reverse)

\* linearExpansion
linearExpansion(state, depth, cache) == getActions(state)

\* getActionValue of cacheExpansion (lines 256-262)
getActionValue(state, depth, cache, action) ==
  LET k == << takeAction(state, action), depth + 1 >>
  IN IF k \in DOMAIN cache THEN cache[k].value ELSE 0

\* cacheExpansion: `not cache` holds of None and of the empty dict
cacheExpansion(state, depth, cache) ==
  IF cache = EmptyCache THEN getActions(state)
  ELSE Only({sorted(actions,
                    [a \in {actions[i] : i \in 1..Len(actions)} |->
                       getActionValue(state, depth, cache, a)],
                    depth % 2 = 0) :
               actions \in {getActions(state)}})

\* self.expansionPolicy(state, depth, self.cache)
expansionPolicy(self, state, depth) ==
  IF self.expansionPolicy = "cacheExpansion"
  THEN cacheExpansion(state, depth, self.cache)
  ELSE linearExpansion(state, depth, self.cache)

\* A readCache whose bounds narrow the wrong end of the window: a "__leq__"
\* entry raises alpha and a "__geq__" entry lowers beta
readCacheWrongEnd(self, state, depth, alpha, beta) ==
  LET k == << state, depth >>
  IN IF (~Truthy(alpha) \/ ~Truthy(beta)) /\ InCache(self.cache, state, depth)
     THEN [alpha |-> alpha, beta |-> beta, value |-> self.cache[k].value]
     ELSE IF InCache(self.cache, state, depth)
     THEN LET flag == self.cache[k].flag
              value == self.cache[k].value
          IN CASE flag = "__eq__" ->
                    [alpha |-> alpha, beta |-> beta, value |-> value]
               [] flag = "__leq__" ->
                    IF value <= alpha
                    THEN [alpha |-> alpha, beta |-> beta, value |-> value]
                    ELSE IF alpha < value /\ value < beta
                    THEN [alpha |-> value, beta |-> beta, value |-> NoneVal]
                    ELSE [alpha |-> alpha, beta |-> beta, value |-> NoneVal]
               [] flag = "__geq__" ->
                    IF beta <= value
                    THEN [alpha |-> alpha, beta |-> beta, value |-> value]
                    ELSE IF alpha < value /\ value < beta
                    THEN [alpha |-> alpha, beta |-> value, value |-> NoneVal]
                    ELSE [alpha |-> alpha, beta |-> beta, value |-> NoneVal]
     ELSE [alpha |-> alpha, beta |-> beta, value |-> NoneVal]

\* Minimax.readCache: returns (alpha, beta, value); value is NoneVal when the
\* caller has to search
readCache(self, state, depth, alpha, beta) ==
  LET k == << state, depth >>
  IN IF (~Truthy(alpha) \/ ~Truthy(beta)) /\ InCache(self.cache, state, depth)
     THEN [alpha |-> alpha, beta |-> beta, value |-> self.cache[k].value]
     ELSE IF InCache(self.cache, state, depth)
     THEN LET flag == self.cache[k].flag
              value == self.cache[k].value
          IN CASE flag = "__eq__" ->
                    [alpha |-> alpha, beta |-> beta, value |-> value]
               [] flag = "__leq__" ->
                    IF value <= alpha
                    THEN [alpha |-> alpha, beta |-> beta, value |-> value]
                    ELSE IF alpha < value /\ value < beta
                    THEN [alpha |-> alpha, beta |-> value, value |-> NoneVal]
                    ELSE [alpha |-> alpha, beta |-> beta, value |-> NoneVal]
               [] flag = "__geq__" ->
                    IF beta <= value
                    THEN [alpha |-> alpha, beta |-> beta, value |-> value]
                    ELSE IF alpha < value /\ value < beta
                    THEN [alpha |-> value, beta |-> beta, value |-> NoneVal]
                    ELSE [alpha |-> alpha, beta |-> beta, value |-> NoneVal]
     ELSE [alpha |-> alpha, beta |-> beta, value |-> NoneVal]

\* Minimax.storeCache: returns the engine with the entry written
storeCache(self, state, depth, alpha, beta, value) ==
  LET k == << state, depth >>
      put(flag) == [self EXCEPT !.cache =
                      (k :> [flag |-> flag, value |-> value]) @@ self.cache]
  IN IF ~Truthy(alpha) \/ ~Truthy(beta) THEN put("__eq__")
     ELSE IF value <= alpha THEN put("__leq__")
     ELSE IF alpha < value /\ value < beta THEN put("__eq__")
     ELSE put("__geq__")

\* One record of the call log kept for the properties: a call of maxValue or
\* minValue, the window it was given, the value it returned, how it got it
\* ("base", "cache" or "search") and the flag of the cache entry it found.
\* read is the value readCache returned (None when the call did not get
\* that far), alphaCopy and betaCopy are the window after the cache was read
\* (lines 63 and 84), stored is the flag of the entry the call wrote ("none" when it
\* wrote nothing), actions the number of actions of the expansion policy and
\* steps the iterations of the for loop the call made.
CallRec(fn, self, state, depth, alpha, beta, value, via) ==
  [ fn |-> fn, state |-> state, depth |-> depth, alpha |-> alpha, beta |-> beta,
    value |-> value, via |-> via,
    flag |-> IF self.toCache /\ InCache(self.cache, state, depth)
             THEN self.cache[<< state, depth >>].flag ELSE "none",
    cached |-> IF self.toCache /\ InCache(self.cache, state, depth)
               THEN self.cache[<< state, depth >>].value ELSE NoneVal,
    read |-> NoneVal, alphaCopy |-> alpha, betaCopy |-> beta, stored |-> "none",
    actions |-> 0, steps |-> << >> ]

\* One iteration of the for loop of maxValue or minValue: the window the
\* child was called with and the running value after the child returned
LoopStep(alpha, beta, value) == [alpha |-> alpha, beta |-> beta, value |-> value]

\* The record of a call that read the cache and returned its value
CacheRec(rec, rc) ==
  [rec EXCEPT !.read = rc.value, !.alphaCopy = rc.alpha, !.betaCopy = rc.beta]

\* The record of a call that searched: the window after the cache was read,
\* the iterations made and the flag of the entry written
SearchRec(rec, rc, actions, l, after) ==
  [rec EXCEPT !.read = rc.value, !.alphaCopy = rc.alpha, !.betaCopy = rc.beta,
              !.actions = Len(actions), !.steps = l.steps,
              !.stored = IF after.toCache
                         THEN after.cache[<< rec.state, rec.depth >>].flag
                         ELSE "none"]

RECURSIVE maxValue(_, _, _, _, _)
RECURSIVE minValue(_, _, _, _, _)
RECURSIVE maxValueLoop(_, _, _, _, _, _, _, _, _)
RECURSIVE minValueLoop(_, _, _, _, _, _, _, _, _)

\* Line 70 and 91: `if alpha and beta`, the test that a window is in effect
windowInEffect(alpha, beta) == Truthy(alpha) /\ Truthy(beta)

\* A maximiser that cuts off against the wrong end of the window
maxCutoffAgainstAlpha(value, alpha, beta) == value >= alpha

\* Line 71: the cutoff test of the maximiser
maxCutoff(value, alpha, beta) == value >= beta

\* Line 92: the cutoff test of the minimiser
minCutoff(value, alpha, beta) == value <= alpha

\* A loop result with the iteration just made put in front of its steps
withStep(r, alpha, beta, value) ==
  [r EXCEPT !.steps = << LoopStep(alpha, beta, value) >> \o r.steps]

\* The for loop of maxValue (lines 68-72) from the i-th action on
maxValueLoop(self, state, depth, actions, i, value, alpha, beta, log) ==
  IF i > Len(actions)
  THEN [value |-> value, self |-> self, log |-> log, steps |-> << >>]
  ELSE Only({
         Only({
           IF windowInEffect(alpha, beta)
           THEN IF maxCutoff(v, alpha, beta)
                THEN [value |-> v, self |-> c.self, log |-> log \cup c.log,
                      steps |-> << LoopStep(alpha, beta, v) >>]
                ELSE Only({withStep(r, alpha, beta, v) :
                             r \in {maxValueLoop(c.self, state, depth, actions, i + 1, v,
                                                 Max(alpha, v), beta, log \cup c.log)}})
           ELSE Only({withStep(r, alpha, beta, v) :
                        r \in {maxValueLoop(c.self, state, depth, actions, i + 1, v,
                                            alpha, beta, log \cup c.log)}}) :
           v \in {Max(value, c.value)}}) :
         c \in {minValue(self, takeAction(state, actions[i]), depth + 1, alpha, beta)}})

\* The for loop of minValue (lines 89-93) from the i-th action on
minValueLoop(self, state, depth, actions, i, value, alpha, beta, log) ==
  IF i > Len(actions)
  THEN [value |-> value, self |-> self, log |-> log, steps |-> << >>]
  ELSE Only({
         Only({
           IF windowInEffect(alpha, beta)
           THEN IF minCutoff(v, alpha, beta)
                THEN [value |-> v, self |-> c.self, log |-> log \cup c.log,
                      steps |-> << LoopStep(alpha, beta, v) >>]
                ELSE Only({withStep(r, alpha, beta, v) :
                             r \in {minValueLoop(c.self, state, depth, actions, i + 1, v,
                                                 alpha, Min(beta, v), log \cup c.log)}})
           ELSE Only({withStep(r, alpha, beta, v) :
                        r \in {minValueLoop(c.self, state, depth, actions, i + 1, v,
                                            alpha, beta, log \cup c.log)}}) :
           v \in {Min(value, c.value)}}) :
         c \in {maxValue(self, takeAction(state, actions[i]), depth + 1, alpha, beta)}})

\* Lines 61-64 and 82-85: the window and value after the cache was read
\* (the window as given and no value when the engine has no cache)
cacheLookup(self, state, depth, alpha, beta) ==
  IF self.toCache THEN readCache(self, state, depth, alpha, beta)
  ELSE [alpha |-> alpha, beta |-> beta, value |-> NoneVal]

\* Lines 75 and 96: the engine after the value was stored (alphaCopy and
\* betaCopy are the window cacheLookup returned)
cacheStore(self, state, depth, alphaCopy, betaCopy, value) ==
  IF self.toCache THEN storeCache(self, state, depth, alphaCopy, betaCopy, value)
  ELSE self

\* Minimax.maxValue: returns the value, the engine (its cache updated) and
\* the calls made
maxValue(self0, state0, depth0, alpha0, beta0) ==
  Only({
    IF isTerminal(state) \/ depth = self.depth
    THEN Only({[value |-> v, self |-> self,
                log |-> {CallRec("max", self, state, depth, alpha, beta, v, "base")}] :
                 v \in {evaluationFunction(self, state, depth)}})
    ELSE Only({
           IF self.toCache /\ Truthy(rc.value)
           THEN [value |-> rc.value, self |-> self,
                 log |-> {CacheRec(CallRec("max", self, state, depth, alpha, beta,
                                           rc.value, "cache"), rc)}]
           ELSE Only({
                  Only({
                    Only({
                      [value |-> l.value, self |-> after,
                       log |-> l.log \cup
                         {SearchRec(CallRec("max", self, state, depth, alpha, beta,
                                            l.value, "search"), rc, actions, l, after)}] :
                      after \in {cacheStore(l.self, state, depth, rc.alpha, rc.beta,
                                            l.value)}}) :
                    l \in {maxValueLoop(self, state, depth, actions, 1, NegInf,
                                        rc.alpha, rc.beta, {})}}) :
                  actions \in {expansionPolicy(self, state, depth)}}) :
           rc \in {cacheLookup(self, state, depth, alpha, beta)}}) :
    self \in {self0}, state \in {state0}, depth \in {depth0},
    alpha \in {alpha0}, beta \in {beta0}})

\* Minimax.minValue
minValue(self0, state0, depth0, alpha0, beta0) ==
  Only({
    IF isTerminal(state) \/ depth = self.depth
    THEN Only({[value |-> v, self |-> self,
                log |-> {CallRec("min", self, state, depth, alpha, beta, v, "base")}] :
                 v \in {evaluationFunction(self, state, depth)}})
    ELSE Only({
           IF self.toCache /\ Truthy(rc.value)
           THEN [value |-> rc.value, self |-> self,
                 log |-> {CacheRec(CallRec("min", self, state, depth, alpha, beta,
                                           rc.value, "cache"), rc)}]
           ELSE Only({
                  Only({
                    Only({
                      [value |-> l.value, self |-> after,
                       log |-> l.log \cup
                         {SearchRec(CallRec("min", self, state, depth, alpha, beta,
                                            l.value, "search"), rc, actions, l, after)}] :
                      after \in {cacheStore(l.self, state, depth, rc.alpha, rc.beta,
                                            l.value)}}) :
                    l \in {minValueLoop(self, state, depth, actions, 1, PosInf,
                                        rc.alpha, rc.beta, {})}}) :
                  actions \in {expansionPolicy(self, state, depth)}}) :
           rc \in {cacheLookup(self, state, depth, alpha, beta)}}) :
    self \in {self0}, state \in {state0}, depth \in {depth0},
    alpha \in {alpha0}, beta \in {beta0}})

\* The for loop of Minimax.search (lines 48-52) from the i-th action on
RECURSIVE searchLoop(_, _, _, _, _, _, _, _, _)
searchLoop(self, state, actions, i, values, value, rootAlpha, rootBeta, log) ==
  IF i > Len(actions)
  THEN [values |-> values, value |-> value, self |-> self, log |-> log]
  ELSE Only({
         Only({
           Only({searchLoop(c.self, state, actions, i + 1, vs, v, a,
                            rootBeta, log \cup c.log) :
                   a \in {IF Truthy(rootAlpha) THEN Max(rootAlpha, v) ELSE rootAlpha},
                   vs \in {Append(values, c.value)}}) :
           v \in {Max(value, c.value)}}) :
         c \in {minValue(self, takeAction(state, actions[i]), 1, rootAlpha, rootBeta)}})

\* bestIndices[0] of line 54-55
firstBestIndex(values, value) ==
  CHOOSE i \in 1..Len(values) :
    /\ values[i] = value
    /\ \A j \in 1..(i - 1) : values[j] # value

\* Line 40 and 195: the cache is emptied when asked and there is one
resetCacheIf(self, resetCache) ==
  IF resetCache /\ self.toCache THEN [self EXCEPT !.cache = EmptyCache] ELSE self

\* Minimax.search on a non-terminal state: the action returned, the engine
\* afterwards, the values list and the calls made
search(self0, state0, resetCache) ==
  Only({
    Only({
      Only({
        [action |-> actions[firstBestIndex(l.values, l.value)],
         actions |-> actions, values |-> l.values, value |-> l.value,
         self |-> l.self, log |-> l.log] :
        l \in {searchLoop(self, state, actions, 1, << >>, NegInf,
                          IF self.toAlphaBetaPrune THEN NegInf ELSE NoneVal,
                          IF self.toAlphaBetaPrune THEN PosInf ELSE NoneVal, {})}}) :
      actions \in {expansionPolicy(self, state, 0)}}) :
    self \in {resetCacheIf(self0, resetCache)}, state \in {state0}})

----------------------------------------------------------------------------
(* The Minimax specification: an engine is constructed with some depth,    *)
(* evaluation function, expansion policy and flags, and the caller calls   *)
(* search on its state, with or without resetCache, up to MaxCalls times.  *)

MaxDepth == 3
MaxCalls == 2

Values == {-1, 0, 1}
Policies == {"linearExpansion", "cacheExpansion"}
Roots == {s \in GameStates : ~isTerminal(s)}

\* The states the evaluation function is called on when searching from
\* `state` (at depth `depth`) with configured depth `cfg`
RECURSIVE Evaluated(_, _, _)
Evaluated(state, depth, cfg) ==
  IF depth > 0 /\ (isTerminal(state) \/ depth = cfg) THEN {state}
  ELSE UNION {Evaluated(GameMoves[state][i].to, depth + 1, cfg) :
                i \in 1..Len(GameMoves[state])}

\* The evaluation functions that differ on the states evaluated
EvalFunctions(root, cfg) ==
  {[s \in GameStates |-> IF s \in DOMAIN f THEN f[s] ELSE 0] :
     f \in [Evaluated(root, 0, cfg) -> Values]}

\* Minimax.__init__
MinimaxNew(depth, evalFn, policy, toCache, toAlphaBetaPrune) ==
  [ depth |-> depth, evaluationFunction |-> evalFn,
    expansionPolicy |-> policy, toCache |-> toCache, cache |-> EmptyCache,
    toAlphaBetaPrune |-> toAlphaBetaPrune ]

\* The depths an engine is configured with: 0 and a negative one among them
ConfiguredDepths == (-1)..MaxDepth

InitMinimax ==
  \E root \in Roots, depth \in ConfiguredDepths :
    \E ev \in EvalFunctions(root, depth), policy \in Policies,
       toCache \in BOOLEAN, toAlphaBetaPrune \in BOOLEAN :
      /\ mm = MinimaxNew(depth, ev, policy, toCache, toAlphaBetaPrune)
      /\ mmRet = [calls |-> 0, state |-> root, resetCache |-> FALSE,
                  action |-> "none", actions |-> << >>,
                  values |-> << >>, log |-> {}]
      /\ IdleIDS /\ IdleMCTS

\* A call of Minimax.search(state, resetCache) by the caller
MinimaxSearch ==
  \E resetCache \in BOOLEAN :
    /\ mmRet.calls < MaxCalls
    /\ \E ret \in {search(mm, mmRet.state, resetCache)} :
          /\ mm' = ret.self
          /\ mmRet' = [calls |-> mmRet.calls + 1, state |-> mmRet.state,
                       resetCache |-> resetCache, action |-> ret.action,
                       actions |-> ret.actions, values |-> ret.values,
                       log |-> ret.log]
          /\ UNCHANGED << idsVars, mctsVars >>

NextMinimax == MinimaxSearch

SpecMinimax == InitMinimax /\ [][NextMinimax]_vars

----------------------------------------------------------------------------
(* Properties of Minimax.search *)

SetMax(S) == CHOOSE x \in S : \A y \in S : y <= x
SetMin(S) == CHOOSE x \in S : \A y \in S : x <= y

\* The depth-limited minimax value of `state` at `depth` for an engine's
\* configured depth and evaluation function: the evaluation at a terminal
\* state or at the configured depth, otherwise the maximum (even depth) or
\* minimum (odd depth) over all successors.
RECURSIVE MinimaxValue(_, _, _)
MinimaxValue(self, state, depth) ==
  IF isTerminal(state) \/ depth = self.depth THEN self.evaluationFunction[state]
  ELSE LET vals == {MinimaxValue(self, GameMoves[state][i].to, depth + 1) :
                      i \in 1..Len(GameMoves[state])}
       IN IF depth % 2 = 0 THEN SetMax(vals) ELSE SetMin(vals)

\* The value of a root action: the minimax value of its successor
ActionValue(self, state, action) == MinimaxValue(self, takeAction(state, action), 1)

Searched == mmRet.calls > 0

BestRootValue == SetMax({ActionValue(mm, mmRet.state, a) :
                           a \in {GameMoves[mmRet.state][i].act :
                                    i \in 1..Len(GameMoves[mmRet.state])}})

\* C1: without a cache, the action a pruning engine returns has the same
\* depth-limited minimax value as the action the same engine returns with
\* pruning switched off.
C1_PruningKeepsValue ==
  (Searched /\ ~mm.toCache /\ mm.toAlphaBetaPrune) =>
     ActionValue(mm, mmRet.state, mmRet.action) =
       ActionValue(mm, mmRet.state,
                   search([mm EXCEPT !.toAlphaBetaPrune = FALSE], mmRet.state, TRUE).action)

\* C1 witness: a pruning engine without cache has searched, a cutoff was
\* taken below the root (some call returned a value at or outside its
\* window), and an evaluation of 0 was seen.
C1_Witness ==
  /\ Searched /\ ~mm.toCache /\ mm.toAlphaBetaPrune
  /\ \E c \in mmRet.log : c.via = "search" /\ c.fn = "min" /\ c.value <= c.alpha
                          /\ c.alpha # NegInf
  /\ \E c \in mmRet.log : c.via = "base" /\ c.value = 0

\* C2 (first part): a caching engine called with resetCache=True returns an
\* action of the same minimax value as the engine without a cache.
C2_CacheKeepsActionValue ==
  (Searched /\ mm.toCache /\ mmRet.resetCache) =>
     ActionValue(mm, mmRet.state, mmRet.action) =
       ActionValue(mm, mmRet.state,
                   search([mm EXCEPT !.toCache = FALSE, !.cache = EmptyCache],
                          mmRet.state, TRUE).action)

\* C9: search returns the first action, in expansion-policy order, whose
\* successor has the maximal minimax value among the root actions.
C9_FirstMaximiser ==
  Searched =>
     \E i \in 1..Len(mmRet.actions) :
        /\ mmRet.action = mmRet.actions[i]
        /\ ActionValue(mm, mmRet.state, mmRet.actions[i]) = BestRootValue
        /\ \A j \in 1..(i - 1) :
              ActionValue(mm, mmRet.state, mmRet.actions[j]) # BestRootValue

----------------------------------------------------------------------------
(* Properties of the Minimax cache (readCache, storeCache and their use in *)
(* maxValue and minValue).  "__geq__" is the tag of a lower bound and      *)
(* "__leq__" the tag of an upper bound.                                    *)

\* An entry (flag, v) is truthful for the value V it stands for
Truthful(flag, v, V) ==
  /\ flag = "__eq__" => v = V
  /\ flag = "__geq__" => v <= V
  /\ flag = "__leq__" => v >= V

\* The calls of the last search that wrote an entry, i.e. the states the
\* cache went through during the search
CacheWrites == { c \in mmRet.log : c.via = "search" /\ c.stored # "none" }

\* C15: every entry of the cache, after a search and at every write made
\* during it, is truthful with respect to the depth-limited minimax value of
\* its state at its depth: an Exact entry holds that value, a LowerBound
\* entry at most that value, an UpperBound entry at least that value.
C15_CacheEntriesTruthful ==
  (Searched /\ mm.toCache) =>
     /\ \A k \in DOMAIN mm.cache :
           Truthful(mm.cache[k].flag, mm.cache[k].value, MinimaxValue(mm, k[1], k[2]))
     /\ \A c \in CacheWrites :
           Truthful(c.stored, c.value, MinimaxValue(mm, c.state, c.depth))

\* What the code keeps of C15: without pruning every entry is Exact and
\* holds the minimax value.
C15_ExactWithoutPruning ==
  (Searched /\ mm.toCache /\ ~mm.toAlphaBetaPrune) =>
     \A k \in DOMAIN mm.cache :
        /\ mm.cache[k].flag = "__eq__"
        /\ mm.cache[k].value = MinimaxValue(mm, k[1], k[2])

\* The calls of the last search that returned the value of the entry they
\* found, without searching
CacheReturns == { c \in mmRet.log : c.via = "cache" }

\* C16: with pruning and caching, a cached LowerBound value is returned as
\* the node's value only when it is >= the beta the node was called with, and
\* a cached UpperBound value only when it is <= the alpha the node was called
\* with, whatever alpha and beta are (0 included).
C16_BoundReturnedOnlyOnCutoff ==
  (Searched /\ mm.toCache /\ mm.toAlphaBetaPrune) =>
     \A c \in CacheReturns :
        /\ c.flag = "__geq__" => c.value >= c.beta
        /\ c.flag = "__leq__" => c.value <= c.alpha

\* What the code keeps of C16: the same for the calls whose alpha and beta
\* are both different from 0.
C16_BoundReturnedOnlyOnCutoffNonZero ==
  (Searched /\ mm.toCache /\ mm.toAlphaBetaPrune) =>
     \A c \in CacheReturns :
        (c.alpha # 0 /\ c.beta # 0) =>
           /\ c.flag = "__geq__" => c.value >= c.beta
           /\ c.flag = "__leq__" => c.value <= c.alpha

\* A bound was returned on a cutoff against a window without a 0
C16_CutoffReturnReached ==
  /\ Searched /\ mm.toCache /\ mm.toAlphaBetaPrune
  /\ \E c \in CacheReturns :
        c.flag \in {"__geq__", "__leq__"} /\ c.alpha # 0 /\ c.beta # 0

\* The calls of the last search that found an entry for their (state, depth)
CacheHits == { c \in mmRet.log : c.via # "base" /\ c.flag # "none" }

\* readCache returned the cached value and left the window alone
ReadReturned(c) ==
  c.read = c.cached /\ c.alphaCopy = c.alpha /\ c.betaCopy = c.beta

\* readCache returned no value and the window (alpha, beta)
ReadWindow(c, alpha, beta) ==
  c.read = NoneVal /\ c.alphaCopy = alpha /\ c.betaCopy = beta

Inside(c) == c.alpha < c.cached /\ c.cached < c.beta

C17_UpperBoundNarrowed ==
  /\ Searched /\ mm.toCache /\ mm.toAlphaBetaPrune
  /\ \E c \in CacheHits :
        /\ c.flag = "__leq__" /\ windowInEffect(c.alpha, c.beta)
        /\ c.betaCopy = c.cached /\ c.betaCopy # c.beta

\* C18: a call that finds an entry for its (state, depth) returns the
\* entry's value without searching (no expansion, no child call, no
\* evaluation) when pruning is disabled or the entry is Exact, whatever the
\* cached value is (0 included).
C18_CachedValueReturnedAtOnce ==
  (Searched /\ mm.toCache) =>
     \A c \in CacheHits :
        (~mm.toAlphaBetaPrune \/ c.flag = "__eq__") =>
           c.via = "cache" /\ c.value = c.cached

\* What the code keeps of C18: the same for the cached values other than 0.
C18_NonZeroCachedValueReturnedAtOnce ==
  (Searched /\ mm.toCache) =>
     \A c \in CacheHits :
        ((~mm.toAlphaBetaPrune \/ c.flag = "__eq__") /\ c.cached # 0) =>
           c.via = "cache" /\ c.value = c.cached

\* An Exact entry with a value other than 0 was found and returned, with
\* and without pruning
C18_ExactReturnReached ==
  /\ Searched /\ mm.toCache
  /\ \E c \in CacheHits : c.flag = "__eq__" /\ c.cached # 0 /\ c.via = "cache"

\* The tag of a fresh value against the window (alpha, beta)
TagAgainst(value, alpha, beta) ==
  IF value <= alpha THEN "__leq__"
  ELSE IF value < beta THEN "__eq__"
  ELSE "__geq__"

\* C19: the entry a call writes after searching is tagged against the
\* window the call had after reading the cache and before its loop: Exact
\* when pruning is disabled, otherwise UpperBound when value <= alpha, Exact
\* when alpha < value < beta and LowerBound when value >= beta (so with
\* pruning no Exact tag is written for a value outside (alpha, beta)).
C19_StoredTagFollowsWindow ==
  (Searched /\ mm.toCache) =>
     \A c \in CacheWrites :
        c.stored = IF ~mm.toAlphaBetaPrune THEN "__eq__"
                   ELSE TagAgainst(c.value, c.alphaCopy, c.betaCopy)

\* What the code keeps of C19: the same for the windows without a 0.
C19_StoredTagFollowsNonZeroWindow ==
  (Searched /\ mm.toCache) =>
     \A c \in CacheWrites :
        (c.alphaCopy # 0 /\ c.betaCopy # 0) =>
           c.stored = IF ~mm.toAlphaBetaPrune THEN "__eq__"
                      ELSE TagAgainst(c.value, c.alphaCopy, c.betaCopy)

\* All three tags were written in one search, one of them against a window
\* the cache had narrowed
C19_AllTagsReached ==
  /\ Searched /\ mm.toCache /\ mm.toAlphaBetaPrune
  /\ \A f \in {"__leq__", "__eq__", "__geq__"} : \E c \in CacheWrites : c.stored = f
  /\ \E c \in CacheWrites : c.alphaCopy # c.alpha \/ c.betaCopy # c.beta

\* The calls of the last search that went through their for loop
Searches == { c \in mmRet.log : c.via = "search" }

\* The cutoff test a call's loop is to apply after an action
CutoffDue(c, step) ==
  IF c.fn = "max" THEN step.value >= step.beta ELSE step.value <= step.alpha

\* The window a call's loop is to use for the action after `step`
NextWindow(c, step) ==
  IF c.fn = "max"
  THEN [alpha |-> Max(step.alpha, step.value), beta |-> step.beta]
  ELSE [alpha |-> step.alpha, beta |-> Min(step.beta, step.value)]

\* The i-th iteration of c's loop follows the pruning rule: on a cutoff it
\* is the last one, otherwise the next action (if any) is expanded with the
\* updated window
StepPrunes(c, i) ==
  IF CutoffDue(c, c.steps[i]) THEN Len(c.steps) = i
  ELSE i < c.actions =>
         /\ Len(c.steps) > i
         /\ c.steps[i + 1].alpha = NextWindow(c, c.steps[i]).alpha
         /\ c.steps[i + 1].beta = NextWindow(c, c.steps[i]).beta

\* C20: with pruning enabled maxValue stops expanding as soon as its
\* running value is >= beta and otherwise raises alpha to max(alpha, value)
\* before the next action, and minValue stops as soon as its running value
\* is <= alpha and otherwise lowers beta to min(beta, value), whatever the
\* numbers alpha and beta are (0 included).
C20_CutoffAndWindowUpdate ==
  (Searched /\ mm.toAlphaBetaPrune) =>
     \A c \in Searches : \A i \in 1..Len(c.steps) : StepPrunes(c, i)

\* What the code keeps of C20: the same for the iterations whose alpha and
\* beta are both different from 0.
C20_CutoffAndWindowUpdateNonZero ==
  (Searched /\ mm.toAlphaBetaPrune) =>
     \A c \in Searches : \A i \in 1..Len(c.steps) :
        (c.steps[i].alpha # 0 /\ c.steps[i].beta # 0) => StepPrunes(c, i)

\* A maximiser and a minimiser each took a cutoff before their last action
\* and each updated their window, none with a 0 in it
C20_CutoffsReached ==
  /\ Searched /\ mm.toAlphaBetaPrune
  /\ \A fn \in {"max", "min"} :
        /\ \E c \in Searches :
              c.fn = fn /\ Len(c.steps) < c.actions /\ c.steps[1].beta # 0
                        /\ c.steps[1].alpha # 0
        /\ \E c \in Searches :
              /\ c.fn = fn /\ Len(c.steps) > 1
              /\ << c.steps[2].alpha, c.steps[2].beta >> #
                    << c.steps[1].alpha, c.steps[1].beta >>
              /\ c.steps[1].alpha # 0 /\ c.steps[1].beta # 0

\* The calls of maxValue and minValue that returned the evaluation function's
\* value (lines 58-59 and 79-80)
Evaluations == { c \in mmRet.log : c.via = "base" }

\* No call of maxValue or minValue is deeper than the configured depth, and
\* the evaluation function is called on terminal states or at that depth
DepthRespected ==
  /\ \A c \in mmRet.log : c.depth <= mm.depth
  /\ \A c \in Evaluations : isTerminal(c.state) \/ c.depth = mm.depth

\* C27: for every configured depth, 0 and negative values included, search
\* never expands or evaluates a state deeper than the configured depth:
\* every call of the evaluation function is on a terminal state or at the
\* configured depth, and the recursion descends at most that many plies.
C27_NeverBelowConfiguredDepth ==
  Searched => DepthRespected

\* C27 for the configured depths of 1 and more
C27_NeverBelowPositiveDepth ==
  Searched /\ mm.depth >= 1 => DepthRespected

\* With a configured depth of 0 or less, line 49 starts the recursion at
\* depth 1 and the test depth == self.depth never holds: only terminal states
\* are evaluated, however deep they are
C27_NonPositiveDepthSearchesToTheEnd ==
  Searched /\ mm.depth <= 0 =>
    /\ \A c \in Evaluations : isTerminal(c.state)
    /\ \A c \in mmRet.log : isTerminal(c.state) <=> c.via = "base"

\* A search with configured depth 0 that evaluated a state three plies down
C27_DeepUnderDepthZero ==
  /\ Searched /\ mm.depth = 0
  /\ \E c \in Evaluations : c.depth = 3

\* A search with a negative configured depth that expanded a state two plies
\* down
C27_DeepUnderNegativeDepth ==
  /\ Searched /\ mm.depth < 0
  /\ \E c \in Searches : c.depth = 2

\* A search that cut the recursion at the configured depth on a state that
\* is not terminal
C27_CutAtConfiguredDepth ==
  /\ Searched /\ mm.depth >= 1
  /\ \E c \in Evaluations : ~isTerminal(c.state) /\ c.depth = mm.depth

----------------------------------------------------------------------------
(* MinimaxIDS (src/minimax.py lines 167-236).  search spawns a process     *)
(* that runs _search on a copy of the engine, waits self.time for it,      *)
(* terminates it if it is still alive, drains the queue and returns the    *)
(* last action, or the first action of the expansion policy when the       *)
(* queue was empty.  Time is a clock of ticks; a step of either process    *)
(* may take any number of ticks.                                           *)

MaxTime == 1
MaxDepthIDS == 2

NoAction == "None"

\* bool(action): None is falsy, an Action object is truthy
TruthyAction(action) == action # NoAction

\* MinimaxIDS.__init__: the Minimax engine starts with depth 1
MinimaxIDSNew(time, maxDepth, evalFn, policy, toCache, toAlphaBetaPrune) ==
  [ depth |-> 1, evaluationFunction |-> evalFn,
    expansionPolicy |-> policy, toCache |-> toCache, cache |-> EmptyCache,
    toAlphaBetaPrune |-> toAlphaBetaPrune, time |-> time, maxDepth |-> maxDepth ]

\* The evaluation functions of the engines under iterative deepening: they
\* differ on a state of every depth
EvalFunctionsIDS ==
  {[s \in GameStates |-> IF s \in DOMAIN f THEN f[s] ELSE 0] :
     f \in [{"B", "L1", "T", "t1"} -> Values]}

ChildAlive == child.pc \notin {"none", "exited", "killed"}

InitIDS ==
  \E time \in 0..MaxTime, maxDepth \in 0..MaxDepthIDS :
    \E ev \in EvalFunctionsIDS, toCache \in BOOLEAN, toAlphaBetaPrune \in BOOLEAN :
      /\ ids = MinimaxIDSNew(time, maxDepth, ev, "linearExpansion", toCache,
                             toAlphaBetaPrune)
      /\ ctl = [pc |-> "idle", state |-> "r", action |-> NoAction, ret |-> NoAction,
                fellBack |-> FALSE]
      /\ child = [pc |-> "none", self |-> "none", state |-> "none",
                  endTime |-> 0, action |-> NoAction, sigterm |-> FALSE]
      /\ queue = << >>
      /\ clock = 0
      /\ passes = << >>
      /\ IdleMinimax /\ IdleMCTS

\* Lines 195-205: reset the cache, create the queue, start the process (it
\* gets a copy of the engine) and begin p.join(self.time)
IdsCall ==
  \E resetCache \in BOOLEAN :
    /\ ctl.pc = "idle"
    /\ ids' = resetCacheIf(ids, resetCache)
    /\ queue' = << >>
    /\ child' = [pc |-> "start", self |-> ids', state |-> ctl.state,
                 endTime |-> 0, action |-> NoAction, sigterm |-> FALSE]
    /\ ctl' = [ctl EXCEPT !.pc = "join"]
    /\ UNCHANGED << clock, passes, mmVars, mctsVars >>

\* Time passes while the search runs
Tick ==
  /\ ctl.pc \in {"join", "alive", "join2"}
  /\ clock <= ids.time
  /\ clock' = clock + 1
  /\ UNCHANGED << ids, ctl, child, queue, passes, mmVars, mctsVars >>

\* Lines 229-230: _search begins: depth 1 and the deadline
ChildStart ==
  /\ child.pc = "start"
  /\ child' = [child EXCEPT !.pc = "loop", !.self.depth = 1,
                            !.endTime = clock + child.self.time]
  /\ UNCHANGED << ids, ctl, queue, clock, passes, mmVars, mctsVars >>

\* A loop test that leaves out the depth
ChildLoopNoDepthTest ==
  /\ child.pc = "loop"
  /\ child' = [child EXCEPT !.pc =
                 IF clock < child.endTime THEN "search" ELSE "exited"]
  /\ UNCHANGED << ids, ctl, queue, clock, passes, mmVars, mctsVars >>

\* Line 231: the loop test; the process ends when it fails
ChildLoop ==
  /\ child.pc = "loop"
  /\ child' = [child EXCEPT !.pc =
                 IF clock < child.endTime /\ child.self.depth <= child.self.maxDepth
                 THEN "search" ELSE "exited"]
  /\ UNCHANGED << ids, ctl, queue, clock, passes, mmVars, mctsVars >>

\* Line 232: one full Minimax search at the current depth, on the child's
\* copy of the engine, keeping its cache
ChildSearch ==
  /\ child.pc = "search"
  /\ \E ret \in {search(child.self, child.state, FALSE)} :
       child' = [child EXCEPT !.pc = "put", !.self = ret.self, !.action = ret.action]
  /\ UNCHANGED << ids, ctl, queue, clock, passes, mmVars, mctsVars >>

\* Lines 233-235: put the action on the queue and go one deeper
ChildPut ==
  /\ child.pc = "put"
  /\ queue' = Append(queue, child.action)
  /\ passes' = Append(passes, [depth |-> child.self.depth, action |-> child.action])
  /\ child' = [child EXCEPT !.pc = "loop", !.self.depth = child.self.depth + 1]
  /\ UNCHANGED << ids, ctl, clock, mmVars, mctsVars >>

\* The process dies of the SIGTERM that p.terminate() sent, wherever it is
ChildDie ==
  /\ ChildAlive
  /\ child.sigterm
  /\ child' = [child EXCEPT !.pc = "killed"]
  /\ UNCHANGED << ids, ctl, queue, clock, passes, mmVars, mctsVars >>

\* Line 205: p.join(self.time) returns: the process ended or the time is up
JoinReturn ==
  /\ ctl.pc = "join"
  /\ ~ChildAlive \/ clock >= ids.time
  /\ ctl' = [ctl EXCEPT !.pc = "alive"]
  /\ UNCHANGED << ids, child, queue, clock, passes, mmVars, mctsVars >>

\* A controller that terminates the process without waiting for it to end
CheckAliveNoJoin ==
  /\ ctl.pc = "alive"
  /\ IF ChildAlive
     THEN child' = [child EXCEPT !.sigterm = TRUE]
     ELSE UNCHANGED child
  /\ ctl' = [ctl EXCEPT !.pc = "drain"]
  /\ UNCHANGED << ids, queue, clock, passes, mmVars, mctsVars >>

\* Lines 206-207: if p.is_alive(): p.terminate()
CheckAlive ==
  /\ ctl.pc = "alive"
  /\ IF ChildAlive
     THEN /\ child' = [child EXCEPT !.sigterm = TRUE]
          /\ ctl' = [ctl EXCEPT !.pc = "join2"]
     ELSE /\ ctl' = [ctl EXCEPT !.pc = "drain"]
          /\ UNCHANGED child
  /\ UNCHANGED << ids, queue, clock, passes, mmVars, mctsVars >>

\* Line 208: p.join() returns once the process is dead
Join2Return ==
  /\ ctl.pc = "join2"
  /\ ~ChildAlive
  /\ ctl' = [ctl EXCEPT !.pc = "drain"]
  /\ UNCHANGED << ids, child, queue, clock, passes, mmVars, mctsVars >>

\* A drain that keeps the first action it gets
keepFirst(action, got) == IF TruthyAction(action) THEN action ELSE got

\* Line 211: action = q.get()
latestAction(action, got) == got

\* Lines 210-211: while not q.empty(): action = q.get()
Drain ==
  /\ ctl.pc = "drain"
  /\ IF queue # << >>
     THEN /\ ctl' = [ctl EXCEPT !.action = latestAction(ctl.action, Head(queue))]
          /\ queue' = Tail(queue)
     ELSE /\ ctl' = [ctl EXCEPT !.pc = "fallback"]
          /\ UNCHANGED queue
  /\ UNCHANGED << ids, child, clock, passes, mmVars, mctsVars >>

\* A fallback that takes the last action of the expansion policy
lastPossibleAction(self, state) ==
  expansionPolicy(self, state, 0)[Len(expansionPolicy(self, state, 0))]

\* Line 215: self.expansionPolicy(state, 0, self.cache)[0]
firstPossibleAction(self, state) == expansionPolicy(self, state, 0)[1]

\* Lines 213-218: the default when the queue gave no action, and the return
Fallback ==
  /\ ctl.pc = "fallback"
  /\ ctl' = [ctl EXCEPT !.pc = "done",
                        !.fellBack = ~TruthyAction(ctl.action),
                        !.ret = IF ~TruthyAction(ctl.action)
                                THEN firstPossibleAction(ids, ctl.state)
                                ELSE ctl.action]
  /\ UNCHANGED << ids, child, queue, clock, passes, mmVars, mctsVars >>

NextIDS ==
  \/ IdsCall \/ Tick
  \/ ChildStart \/ ChildLoop \/ ChildSearch \/ ChildPut \/ ChildDie
  \/ JoinReturn \/ CheckAlive \/ Join2Return \/ Drain \/ Fallback

SpecIDS == InitIDS /\ [][NextIDS]_vars

\* The scheduler runs the parent, the clock advances, and a SIGTERM is
\* delivered; nothing is assumed about the progress of the child.
FairIDS ==
  /\ WF_vars(IdsCall) /\ WF_vars(Tick) /\ WF_vars(ChildDie)
  /\ WF_vars(JoinReturn) /\ WF_vars(CheckAlive) /\ WF_vars(Join2Return)
  /\ WF_vars(Drain) /\ WF_vars(Fallback)

SpecIDSFair == SpecIDS /\ FairIDS

----------------------------------------------------------------------------
(* Properties of MinimaxIDS.search *)

IdsDone == ctl.pc = "done"

LastPass == passes[Len(passes)]

\* C3: when search returns after at least one pass put its action on the
\* queue, it returns the action of the last pass put, which is the pass of
\* the highest depth completed; the fallback is not used.
C3_ReturnsLatestCompleted ==
  (IdsDone /\ passes # << >>) =>
     /\ ctl.ret = LastPass.action
     /\ \A i \in 1..Len(passes) : passes[i].depth <= LastPass.depth
     /\ ~ctl.fellBack

\* C3 witness: search returned after the child was terminated between the
\* search of a pass and its put, with an earlier pass on the queue whose
\* action differs from the one of the interrupted pass.
C3_Witness ==
  /\ IdsDone /\ passes # << >>
  /\ child.pc = "killed" /\ child.self.depth = LastPass.depth + 1
  /\ child.action # LastPass.action
  /\ ctl.ret = LastPass.action

\* C4: when no pass has put an action, search on a non-terminal state
\* returns the first action of expansionPolicy(state, 0, cache); with a
\* budget of 0 that is always the case.
C4_FallbackFirstAction ==
  IdsDone =>
     /\ passes = << >> =>
          /\ ctl.fellBack
          /\ ctl.ret = expansionPolicy(ids, ctl.state, 0)[1]
          /\ ctl.ret = getActions(ctl.state)[1]
     /\ ids.time = 0 => passes = << >>

\* C4 witness: a search with a budget of 0 has returned the fallback
C4_Witness ==
  /\ IdsDone /\ ids.time = 0 /\ ids.maxDepth > 0
  /\ passes = << >> /\ ctl.fellBack /\ ctl.ret = "a"

\* C5: search eventually returns, and whenever it has returned the spawned
\* process is not alive.
C5_ReturnsAndChildDead ==
  /\ <>IdsDone
  /\ [](IdsDone => ~ChildAlive)

\* C5 witness: search has returned although the child was stopped inside a
\* pass before it had put any action.
C5_Witness ==
  /\ IdsDone /\ passes = << >>
  /\ child.pc = "killed" /\ child.self.depth = 1 /\ ids.time > 0

----------------------------------------------------------------------------
(* The deepening loop of MinimaxIDS._search (lines 229-235) under engines  *)
(* whose maxDepth reaches the depth of the game, so that a pass follows    *)
(* two passes that filled the cache.                                       *)

MaxDepthPasses == 3

\* The evaluation functions of these engines: they differ on a state of
\* each depth below the root's successors
EvalFunctionsPasses ==
  {[s \in GameStates |-> IF s \in DOMAIN f THEN f[s] ELSE 0] :
     f \in [{"L1", "T", "t1"} -> Values]}

InitIDSPasses ==
  \E time \in 0..MaxTime, maxDepth \in 0..MaxDepthPasses :
    \E ev \in EvalFunctionsPasses, toCache \in BOOLEAN, toAlphaBetaPrune \in BOOLEAN :
      /\ ids = MinimaxIDSNew(time, maxDepth, ev, "linearExpansion", toCache,
                             toAlphaBetaPrune)
      /\ ctl = [pc |-> "idle", state |-> "r", action |-> NoAction, ret |-> NoAction,
                fellBack |-> FALSE]
      /\ child = [pc |-> "none", self |-> "none", state |-> "none",
                  endTime |-> 0, action |-> NoAction, sigterm |-> FALSE]
      /\ queue = << >>
      /\ clock = 0
      /\ passes = << >>
      /\ IdleMinimax /\ IdleMCTS

SpecIDSPasses == InitIDSPasses /\ [][NextIDS]_vars

\* The parent has not begun to drain the queue
Undrained == ctl.pc \in {"join", "alive", "join2"}

\* The queue holds the actions of the passes put, in order, and the passes
\* are those of depths 1, 2, ..., d with d <= maxDepth
QueueIsPasses ==
  Undrained =>
     /\ Len(queue) = Len(passes)
     /\ Len(passes) <= ids.maxDepth
     /\ \A i \in 1..Len(passes) :
           passes[i].depth = i /\ queue[i] = passes[i].action

\* A pass is started only at a depth up to maxDepth and before the deadline
\* of the loop, and at the depth after the last pass put
PassStart ==
  (child.pc = "loop" /\ child'.pc = "search") =>
     /\ child.self.depth <= ids.maxDepth
     /\ clock < child.endTime
     /\ child.self.depth = Len(passes) + 1

\* A pass keeps the entries the cache had when it started
PassKeepsCache ==
  (child.pc = "search" /\ child'.pc = "put" /\ ids.toCache) =>
     \A k \in DOMAIN child.self.cache : k \in DOMAIN child'.self.cache

\* C21: while the deepening loop runs, the queue holds exactly one action per
\* completed pass, in order, for the depths 1, 2, ..., d with d <= maxDepth;
\* a pass is started only at a depth up to maxDepth and before the deadline,
\* and no pass resets the cache.
C21_OnePassPerDepth ==
  /\ []QueueIsPasses
  /\ [][PassStart /\ PassKeepsCache]_vars

\* C21 witness: three passes were put at depths 1, 2 and 3 and the last one
\* started with entries of an earlier pass in the cache.
C21_Witness ==
  /\ Undrained /\ ids.toCache /\ Len(passes) = 3 /\ Len(queue) = 3
  /\ passes[2].action # passes[1].action
  /\ DOMAIN child.self.cache # {}

\* The engine of the pass at depth d, and a fresh Minimax engine of depth d
\* with the same evaluation function, expansion policy and flags
PassEngine(d) == [ids EXCEPT !.depth = d]
FreshEngine(d) == [ids EXCEPT !.depth = d, !.cache = EmptyCache]

\* The action of the pass at depth d has the depth-d minimax value of the
\* action the fresh engine of depth d returns
PassMatchesFresh(d) ==
  ActionValue(PassEngine(d), ctl.state, passes[d].action) =
    ActionValue(PassEngine(d), ctl.state,
                search(FreshEngine(d), ctl.state, TRUE).action)

\* C22: the action recorded by every completed pass d has the same depth-d
\* minimax value as the action a fresh Minimax engine of depth d returns on
\* the same state, with and without a cache carried from the passes below.
C22_PassMatchesFreshEngine ==
  \A d \in 1..Len(passes) : PassMatchesFresh(d)

\* What the code keeps of C22: the same for engines without a cache, and
\* with a cache for the passes at depths 1 and 2 (the first pass that writes
\* entries is the one at depth 2).
C22_PassMatchesFreshEngineNoCarry ==
  \A d \in 1..Len(passes) : (~ids.toCache \/ d <= 2) => PassMatchesFresh(d)

\* Three passes were completed without a cache
C22_ThreePassesReached ==
  ~ids.toCache /\ Len(passes) = 3 /\ passes[3].action # passes[2].action

----------------------------------------------------------------------------
(* A caching MinimaxIDS engine called several times by its caller: after   *)
(* search has returned the caller calls it again, with or without          *)
(* resetCache.  The record of the parent keeps the number of the call,     *)
(* the resetCache it was made with and the keys of the entries the passes  *)
(* of the call before wrote.                                               *)

MaxCallsIDS == 2

\* The evaluation functions of these engines
EvalFunctionsCalls ==
  {[s \in GameStates |-> IF s \in DOMAIN f THEN f[s] ELSE 0] :
     f \in [{"T"} -> Values]}

InitIDSCalls ==
  \E time \in 0..MaxTime, maxDepth \in 0..MaxDepthPasses :
    \E ev \in EvalFunctionsCalls, toAlphaBetaPrune \in BOOLEAN :
      /\ ids = MinimaxIDSNew(time, maxDepth, ev, "linearExpansion", TRUE,
                             toAlphaBetaPrune)
      /\ ctl = [pc |-> "idle", state |-> "r", action |-> NoAction, ret |-> NoAction,
                fellBack |-> FALSE, calls |-> 1, resetCache |-> FALSE,
                written |-> {}]
      /\ child = [pc |-> "none", self |-> "none", state |-> "none",
                  endTime |-> 0, action |-> NoAction, sigterm |-> FALSE]
      /\ queue = << >>
      /\ clock = 0
      /\ passes = << >>
      /\ IdleMinimax /\ IdleMCTS

\* The keys of the entries the passes of the call that has returned wrote
\* (the process began with a copy of the engine and is dead)
WrittenByPasses == DOMAIN child.self.cache \ DOMAIN ids.cache

\* search has returned and the caller calls it again (lines 195-205); the
\* clock counts from the call
IdsCallAgain ==
  \E resetCache \in BOOLEAN :
    /\ ctl.pc = "done"
    /\ ctl.calls < MaxCallsIDS
    /\ ids' = resetCacheIf(ids, resetCache)
    /\ queue' = << >>
    /\ child' = [pc |-> "start", self |-> ids', state |-> ctl.state,
                 endTime |-> 0, action |-> NoAction, sigterm |-> FALSE]
    /\ ctl' = [ctl EXCEPT !.pc = "join", !.action = NoAction, !.ret = NoAction,
                          !.fellBack = FALSE, !.calls = ctl.calls + 1,
                          !.resetCache = resetCache,
                          !.written = WrittenByPasses]
    /\ clock' = 0
    /\ passes' = << >>
    /\ UNCHANGED << mmVars, mctsVars >>

NextIDSCalls == NextIDS \/ IdsCallAgain

SpecIDSCalls == InitIDSCalls /\ [][NextIDSCalls]_vars

\* C23: at the start of a search call made with resetCache=False, and from
\* then on, the engine's cache holds the entries the deepening passes of
\* the call before wrote; only a call with resetCache=True empties the cache.
C23_PassEntriesKept ==
  (ctl.calls > 1 /\ ~ctl.resetCache) =>
     \A k \in ctl.written : k \in DOMAIN ids.cache

\* What the code keeps of C23: the engine's own cache is changed by no call
\* and no pass; it stays as it was built, empty.
C23_EngineCacheStaysEmpty == ids.cache = EmptyCache

\* A second call was made with resetCache=False after passes that wrote
\* entries
C23_SecondCallReached ==
  ctl.calls > 1 /\ ~ctl.resetCache /\ ctl.written # {} /\ ctl.pc = "done"

----------------------------------------------------------------------------
(* The MNK game (src/mcts/applications/mnk.py).  A state object is a       *)
(* record of its fields; the board is indexed from 0 as in the source.  A  *)
(* method that may assign to fields of the object it is called on returns  *)
(* the object afterwards as `self` next to its return value `ret`.         *)

EmptySign == "-"

\* MNKAction(playerSign, m, n)
MNKAction(playerSign, m, n) == [playerSign |-> playerSign, m |-> m, n |-> n]

\* lastAction = None
NoLastAction == [playerSign |-> "None", m |-> 0 - 1, n |-> 0 - 1]

\* MNK.__init__ (k <= min(m, n) and the empty sign is no player's sign)
MNK_New(m, n, k, playerSigns) ==
  [ m |-> m, n |-> n, k |-> k,
    playerSigns |-> playerSigns,
    playerSignsRotation |-> playerSigns,
    emptySign |-> EmptySign,
    lastAction |-> NoLastAction,
    _isTerminal |-> FALSE,
    remainingMoves |-> m * n,
    reward |-> [i \in 1..Len(playerSigns) |-> 0],
    board |-> [i \in 0..(m - 1) |-> [j \in 0..(n - 1) |-> EmptySign]] ]

\* MNK.getCurrentPlayerSign
MNK_getCurrentPlayerSign(self) == self.playerSignsRotation[1]

\* The cells (i, j) in the order of `for i in range(m) for j in range(n)`
MNK_cellOrder(self) ==
  [c \in 1..(self.m * self.n) |-> << (c - 1) \div self.n, (c - 1) % self.n >>]

\* An action of the current player on every cell, empty or not
MNK_getActionsAllCells(self) ==
  [i \in 1..(self.m * self.n) |->
     MNKAction(MNK_getCurrentPlayerSign(self),
               MNK_cellOrder(self)[i][1], MNK_cellOrder(self)[i][2])]

\* MNK.getActions: an action of the current player on every empty cell
MNK_getActions(self) ==
  LET cells == SelectSeq(MNK_cellOrder(self),
                         LAMBDA c : self.board[c[1]][c[2]] = self.emptySign)
  IN [i \in 1..Len(cells) |->
        MNKAction(MNK_getCurrentPlayerSign(self), cells[i][1], cells[i][2])]

\* encodeReward: +1 for the player of the last action, -1 for the others
MNK_encodeReward(self) ==
  [i \in 1..Len(self.playerSigns) |->
     IF self.playerSigns[i] = self.lastAction.playerSign THEN 1 ELSE 0 - 1]

\* One scanning loop of checkWinner over a line of cells: runningK counts
\* consecutive signs of the last player and the scan succeeds at k
RECURSIVE MNK_scan(_, _, _, _)
MNK_scan(self, cells, i, runningK) ==
  IF i > Len(cells) THEN FALSE
  ELSE LET rk == IF self.board[cells[i][1]][cells[i][2]] = self.lastAction.playerSign
                 THEN runningK + 1 ELSE 0
       IN IF rk = self.k THEN TRUE ELSE MNK_scan(self, cells, i + 1, rk)

\* A scan of the row and the column only
MNK_linesNoDiagonals(self) ==
  LET la == self.lastAction
      leftMost == Max(0, la.n - (self.k - 1))
      rightMost == Min(self.n - 1, la.n + (self.k - 1))
      topMost == Max(0, la.m - (self.k - 1))
      bottomMost == Min(self.m - 1, la.m + (self.k - 1))
  IN << [i \in 1..(rightMost - leftMost + 1) |-> << la.m, leftMost + i - 1 >>],
        [i \in 1..(bottomMost - topMost + 1) |-> << topMost + i - 1, la.n >>],
        << >>, << >> >>

\* The cells checkWinner scans: the row, the column and the two diagonals
\* through the last action, each clipped to k-1 cells either side
MNK_lines(self) ==
  LET la == self.lastAction
      leftMost == Max(0, la.n - (self.k - 1))
      rightMost == Min(self.n - 1, la.n + (self.k - 1))
      topMost == Max(0, la.m - (self.k - 1))
      bottomMost == Min(self.m - 1, la.m + (self.k - 1))
      d1 == Min(la.m - topMost, la.n - leftMost)
      d2 == Min(la.m - topMost, rightMost - la.n)
      n1 == Min(bottomMost - (la.m - d1), rightMost - (la.n - d1)) + 1
      n2 == Min(bottomMost - (la.m - d2), (la.n + d2) - leftMost) + 1
  IN << [i \in 1..(rightMost - leftMost + 1) |-> << la.m, leftMost + i - 1 >>],
        [i \in 1..(bottomMost - topMost + 1) |-> << topMost + i - 1, la.n >>],
        [i \in 1..n1 |-> << la.m - d1 + i - 1, la.n - d1 + i - 1 >>],
        [i \in 1..n2 |-> << la.m - d2 + i - 1, la.n + d2 - (i - 1) >> ] >>

\* MNK.checkWinner: raises (AttributeError) when no action was taken yet;
\* on a win it sets reward and _isTerminal
MNK_checkWinner(self) ==
  IF self.lastAction = NoLastAction
  THEN [ret |-> FALSE, self |-> self, raised |-> TRUE]
  ELSE IF \E line \in {MNK_lines(self)} :
            \E l \in 1..4 : MNK_scan(self, line[l], 1, 0)
  THEN [ret |-> TRUE,
        self |-> [self EXCEPT !.reward = MNK_encodeReward(self), !._isTerminal = TRUE],
        raised |-> FALSE]
  ELSE [ret |-> FALSE, self |-> self, raised |-> FALSE]

\* MNK.isTerminal
MNK_isTerminal(self) ==
  IF self._isTerminal THEN [ret |-> TRUE, self |-> self]
  ELSE IF self.lastAction = NoLastAction THEN [ret |-> FALSE, self |-> self]
  ELSE IF self.remainingMoves <= 0
  THEN [ret |-> TRUE,
        self |-> MNK_checkWinner([self EXCEPT !._isTerminal = TRUE]).self]
  ELSE Only({ [ret |-> w.ret, self |-> w.self] : w \in {MNK_checkWinner(self)} })

\* MNK.getReward
MNK_getReward(self) ==
  Only({ [ret |-> w.self.reward, self |-> w.self, raised |-> w.raised] :
         w \in {MNK_checkWinner(self)} })

\* A legality test that lets any player move
MNK_illegalAnyTurn(self, action) ==
  \/ action.m < 0 \/ action.m >= self.m
  \/ action.n < 0 \/ action.n >= self.n
  \/ self.board[action.m][action.n] # self.emptySign

\* Lines 98-103: the action is out of bounds, out of turn or on a taken cell
MNK_illegal(self, action) ==
  \/ action.m < 0 \/ action.m >= self.m
  \/ action.n < 0 \/ action.n >= self.n
  \/ action.playerSign # MNK_getCurrentPlayerSign(self)
  \/ self.board[action.m][action.n] # self.emptySign

\* Lines 106-112: the assignments of takeAction to stateCopy
MNK_place(stateCopy, action) ==
  [stateCopy EXCEPT
     !.board[action.m][action.n] = action.playerSign,
     !.playerSignsRotation = Append(Tail(stateCopy.playerSignsRotation),
                                    action.playerSign),
     !.remainingMoves = stateCopy.remainingMoves - 1,
     !.lastAction = action]

\* MNK.takeAction: `ret` is the state returned and `self` the object the
\* method was called on afterwards; with preserveState the new state is a
\* deep copy and self keeps its board, without it they are one object
MNK_takeAction(self, action, preserveState) ==
  Only({ IF t.ret THEN [ret |-> t.self, self |-> t.self, raised |-> TRUE]
         ELSE IF MNK_illegal(t.self, action)
         THEN [ret |-> t.self, self |-> t.self, raised |-> TRUE]
         ELSE Only({ [ret |-> stateCopy,
                      self |-> IF preserveState THEN t.self ELSE stateCopy,
                      raised |-> FALSE] :
                     stateCopy \in {MNK_place(t.self, action)} }) :
         t \in {MNK_isTerminal(self)} })

----------------------------------------------------------------------------
(* MCTS (src/mcts/mcts.py) with linearExpansion, randomRollout and         *)
(* sumTuple.  A node is addressed by the path of actions leading to it     *)
(* from the root (the root is << >>); its parent is the path without the   *)
(* last action.  utilities = None is the empty tuple.  The object held by  *)
(* the root node is the very object the caller passed to search.           *)

Root == << >>
NoUtilities == << >>

\* Node.__init__
Node(state) ==
  [state |-> state, children |-> << >>, numVisits |-> 0, utilities |-> NoUtilities]

\* node.parent
Parent(node) == SubSeq(node, 1, Len(node) - 1)

\* sumTuple (src/mcts/utils.py)
sumTuple(a, b) == [i \in 1..Min(Len(a), Len(b)) |-> a[i] + b[i]]

\* Node.isLeaf
isLeaf(t, node) ==
  Len(t[node].children) = 0 \/ MNK_isTerminal(t[node].state).ret

\* MCTS.selection: the leaves the loop can end at, the selection policy
\* returning any one child of the node it is given
RECURSIVE selection(_, _)
selection(t, node) ==
  IF isLeaf(t, node) THEN {node}
  ELSE UNION { selection(t, Append(node, t[node].children[i])) :
                 i \in 1..Len(t[node].children) }

\* linearExpansion (src/mcts/policy/expansion.py)
MCTS_expansionPolicy(state) == MNK_getActions(state)

\* The loop of MCTS.expansion over actions[i..]
RECURSIVE expansionLoop(_, _, _, _)
expansionLoop(t, node, actions, i) ==
  IF i > Len(actions) THEN t
  ELSE expansionLoop(
         Only({ (Append(node, actions[i]) :> Node(taken.ret)) @@
                [t EXCEPT ![node].state = taken.self,
                          ![node].children = Append(@, actions[i])] :
                taken \in {MNK_takeAction(t[node].state, actions[i], TRUE)} }),
         node, actions, i + 1)

\* An expansion that adds the child of the first action only
expansionFirstOnly(t, node) ==
  Only({ [tree |-> expansionLoop(t, node, << actions[1] >>, 1),
          ret |-> Append(node, actions[1])] :
         actions \in {MCTS_expansionPolicy(t[node].state)} })

\* MCTS.expansion: the tree afterwards and the node returned
expansion(t, node) ==
  Only({ [tree |-> expansionLoop(t, node, actions, 1),
          ret |-> Append(node, actions[1])] :
         actions \in {MCTS_expansionPolicy(t[node].state)} })

\* The loop of randomRollout on the object it plays on: every terminal
\* state the random choices can lead to, with its reward
RECURSIVE rolloutLoop(_)
rolloutLoop(state) ==
  Only({ IF t.ret THEN {MNK_getReward(t.self)}
         ELSE UNION { rolloutLoop(MNK_takeAction(t.self, action, FALSE).ret) :
                      action \in Range(MNK_getActions(t.self)) } :
         t \in {MNK_isTerminal(state)} })

\* A rollout without line 15's deepcopy: the argument is the object played on
randomRolloutInPlace(state) ==
  { [utility |-> end.ret, arg |-> end.self] : end \in rolloutLoop(state) }

\* randomRollout (src/mcts/policy/rollout.py): the rewards it can return;
\* it plays on a deep copy, so the argument object `arg` stays as it was
randomRollout(state) ==
  { [utility |-> end.ret, arg |-> state] : end \in rolloutLoop(state) }

\* A backpropagation that stops below the root
RECURSIVE backpropagationShort(_, _, _)
backpropagationShort(t, node, utility) ==
  IF node = Root THEN t
  ELSE backpropagationShort(
         [t EXCEPT ![node].numVisits = @ + 1,
                   ![node].utilities = IF @ # NoUtilities THEN sumTuple(@, utility)
                                       ELSE utility],
         Parent(node), utility)

\* A backpropagation that keeps the latest utility instead of the sum
RECURSIVE backpropagationLatest(_, _, _)
backpropagationLatest(t, node, utility) ==
  IF node = Root
  THEN [t EXCEPT ![node].numVisits = @ + 1, ![node].utilities = utility]
  ELSE backpropagationLatest(
         [t EXCEPT ![node].numVisits = @ + 1, ![node].utilities = utility],
         Parent(node), utility)

\* MCTS.backpropagation with utilitySumFunc = sumTuple
RECURSIVE backpropagation(_, _, _)
backpropagation(t, node, utility) ==
  IF node = Root
  THEN [t EXCEPT ![node].numVisits = @ + 1,
                 ![node].utilities = IF @ # NoUtilities THEN sumTuple(@, utility)
                                     ELSE utility]
  ELSE backpropagation(
         [t EXCEPT ![node].numVisits = @ + 1,
                   ![node].utilities = IF @ # NoUtilities THEN sumTuple(@, utility)
                                       ELSE utility],
         Parent(node), utility)

\* MCTS.simulation
simulation(t, node) == randomRollout(t[node].state)

\* Lines 92-94: i more rollouts from node, each backpropagated; the trees
\* the random choices can lead to, each with the node the rollouts started
\* from and the utilities they returned, in order
RECURSIVE simulationLoop(_, _, _)
simulationLoop(t, node, i) ==
  IF i <= 0 THEN {[tree |-> t, node |-> node, utilities |-> << >>]}
  ELSE UNION { { [r EXCEPT !.utilities = << out.utility >> \o @] :
                 r \in simulationLoop(
                        backpropagation([t EXCEPT ![node].state = out.arg], node,
                                        out.utility),
                        node, i - 1) } :
               out \in simulation(t, node) }

\* An iteration that expands the selected leaf whether it was visited or not
oneIterationExpandsUnvisited(t, leaf, simPerIter) ==
  IF ~MNK_isTerminal(t[leaf].state).ret
  THEN Only({ simulationLoop(e.tree, e.ret, simPerIter) : e \in {expansion(t, leaf)} })
  ELSE simulationLoop(t, leaf, simPerIter)

\* MCTS.oneIteration once selection has returned `leaf`
oneIteration(t, leaf, simPerIter) ==
  IF t[leaf].numVisits > 0 /\ ~MNK_isTerminal(t[leaf].state).ret
  THEN Only({ simulationLoop(e.tree, e.ret, simPerIter) : e \in {expansion(t, leaf)} })
  ELSE simulationLoop(
         IF t[leaf].numVisits > 0
         THEN [t EXCEPT ![leaf].state = MNK_isTerminal(@).self] ELSE t,
         leaf, simPerIter)

\* Python's sum over a list of numbers
RECURSIVE sum(_)
sum(xs) == IF Len(xs) = 0 THEN 0 ELSE Head(xs) + sum(Tail(xs))

\* epsilon = 0.00001 is 1 / EpsilonInv
EpsilonInv == 100000

\* Lines 69-72: utilityIdx lists 0-based indices; None and [] are << >>
childUtilities(childNode, utilityIdx) ==
  IF childNode.utilities = NoUtilities THEN 0
  ELSE IF utilityIdx # << >>
  THEN sum([j \in 1..Len(utilityIdx) |-> childNode.utilities[utilityIdx[j] + 1]])
  ELSE sum(childNode.utilities)

\* Line 74: childUtilities / (numVisits + epsilon) is the exact fraction
\* EpsilonInv * num / den with den > 0; the factor EpsilonInv, common to
\* all of them, is left out
expectedUtilities(childNode, utilityIdx) ==
  [num |-> childUtilities(childNode, utilityIdx),
   den |-> childNode.numVisits * EpsilonInv + 1]

\* float("-inf") as a fraction that every fraction with den > 0 exceeds
NegInfUtilities == [num |-> 0 - 1, den |-> 0]

\* x > y and x == y on such fractions
greater(x, y) == x.num * y.den > y.num * x.den
equal(x, y) == x.num * y.den = y.num * x.den

\* A tie that replaces the actions collected so far
tieReplace(bestActions, action) == << action >>

\* Line 79: bestActions.append(action)
tieAppend(bestActions, action) == Append(bestActions, action)

\* Lines 68-79: the loop over root.children.items() from the i-th on
RECURSIVE bestActionsLoop(_, _, _, _, _)
bestActionsLoop(t, utilityIdx, i, bestExpectedUtilities, bestActions) ==
  IF i > Len(t[Root].children) THEN bestActions
  ELSE LET action == t[Root].children[i]
           e == expectedUtilities(t[Append(Root, action)], utilityIdx)
       IN IF greater(e, bestExpectedUtilities)
          THEN bestActionsLoop(t, utilityIdx, i + 1, e, << action >>)
          ELSE IF equal(e, bestExpectedUtilities)
          THEN bestActionsLoop(t, utilityIdx, i + 1, bestExpectedUtilities,
                               tieAppend(bestActions, action))
          ELSE bestActionsLoop(t, utilityIdx, i + 1, bestExpectedUtilities,
                               bestActions)

\* breakTies = random.choice: any element, IndexError on an empty list
breakTies(bestActions) ==
  IF Len(bestActions) = 0
  THEN {[raised |-> "IndexError", action |-> NoLastAction]}
  ELSE {[raised |-> "", action |-> bestActions[i]] : i \in 1..Len(bestActions)}

----------------------------------------------------------------------------
(* MCTS.search as a state machine.  The caller builds an MNK game, plays   *)
(* up to MaxSetup legal moves (state = state.takeAction(action), as in     *)
(* gamePlay of src/mcts/utils.py), each the first or the second action of  *)
(* getActions, and calls search on a non-terminal state; the loop runs     *)
(* oneIteration until the iteration or the time budget is used up, then    *)
(* the best action is selected.                                            *)

MaxSetup == 3
MaxIter == 3

\* The indices into getActions() of the moves the caller plays
PlayChoices == {1, 2}

\* The values of simPerIter()
SimPerIters == {0, 1, 2}

\* The games played: m, n, k and the player signs
Configs ==
  { [m |-> 1, n |-> 1, k |-> 1, playerSigns |-> << "X", "O" >>],
    [m |-> 2, n |-> 2, k |-> 2, playerSigns |-> << "X", "O", "Z" >>],
    [m |-> 2, n |-> 3, k |-> 2, playerSigns |-> << "X", "O" >>] }

\* The values of utilityIdx: None, the first player, the second player
UtilityIdxs == { << >>, << 0 >>, << 1 >> }

NoRet == [raised |-> "", action |-> NoLastAction]

\* The rollouts run so far, by the node they started from: how many and
\* the utilities they returned, in order
NoRollouts == << >>

\* The record of rollouts after `utilities` were returned from `node`
withRollouts(rollouts, node, utilities) ==
  IF Len(utilities) = 0 THEN rollouts
  ELSE IF node \in DOMAIN rollouts
  THEN [rollouts EXCEPT ![node] = @ \o utilities]
  ELSE (node :> utilities) @@ rollouts

InitMCTS ==
  /\ \E c \in Configs : game = MNK_New(c.m, c.n, c.k, c.playerSigns)
  /\ tree = << >>
  /\ mcts = [pc |-> "caller", maxIter |-> 0, simPerIter |-> 0,
             utilityIdx |-> << >>, timeLeft |-> FALSE, iterCnt |-> 0,
             bestActions |-> << >>, ret |-> NoRet,
             leaf |-> Root, node |-> Root, rollouts |-> NoRollouts]
  /\ mnk = "unused"
  /\ IdleMinimax /\ IdleIDS

\* The caller plays a legal move: state = state.takeAction(action)
Play ==
  /\ mcts.pc = "caller"
  /\ game.m * game.n - game.remainingMoves < MaxSetup
  /\ ~MNK_isTerminal(game).ret
  /\ \E i \in PlayChoices \cap (1..Len(MNK_getActions(game))) :
       game' = MNK_takeAction(game, MNK_getActions(game)[i], TRUE).ret
  /\ UNCHANGED << tree, mcts, mnk, mmVars, idsVars >>

\* Lines 50-56: the call; maxTimeSec() is zero or positive
SearchCall ==
  /\ mcts.pc = "caller"
  /\ ~MNK_isTerminal(game).ret
  /\ \E maxIteration \in 0..MaxIter, simPerIter \in SimPerIters,
        utilityIdx \in UtilityIdxs, maxTimePositive \in BOOLEAN :
       mcts' = [pc |-> "loop", maxIter |-> maxIteration, simPerIter |-> simPerIter,
                utilityIdx |-> utilityIdx, timeLeft |-> maxTimePositive,
                iterCnt |-> 0, bestActions |-> << >>, ret |-> NoRet,
                leaf |-> Root, node |-> Root, rollouts |-> NoRollouts]
  /\ tree' = (Root :> Node(game))
  /\ UNCHANGED << game, mnk, mmVars, idsVars >>

\* Lines 59-62: one pass of the loop; the time read on line 62 is below
\* timeMax or not.  The record keeps the leaf selection returned, the node
\* the rollouts started from and the utilities of all rollouts so far.
OneIteration ==
  /\ mcts.pc = "loop"
  /\ mcts.iterCnt < mcts.maxIter /\ mcts.timeLeft
  /\ \E leaf \in selection(tree, Root) :
       \E it \in oneIteration(tree, leaf, mcts.simPerIter), timeLeft \in BOOLEAN :
         /\ tree' = it.tree
         /\ mcts' = [mcts EXCEPT !.iterCnt = @ + 1, !.timeLeft = timeLeft,
                                 !.leaf = leaf, !.node = it.node,
                                 !.rollouts = withRollouts(@, it.node, it.utilities)]
  /\ UNCHANGED << game, mnk, mmVars, idsVars >>

\* Lines 59 and 64-80: the loop is left and the best action returned
SearchReturn ==
  /\ mcts.pc = "loop"
  /\ ~(mcts.iterCnt < mcts.maxIter /\ mcts.timeLeft)
  /\ \E bestActions \in {bestActionsLoop(tree, mcts.utilityIdx, 1, NegInfUtilities, << >>)} :
       \E ret \in breakTies(bestActions) :
         mcts' = [mcts EXCEPT !.pc = "done", !.bestActions = bestActions, !.ret = ret]
  /\ UNCHANGED << game, tree, mnk, mmVars, idsVars >>

NextMCTS == Play \/ SearchCall \/ OneIteration \/ SearchReturn

SpecMCTS == InitMCTS /\ [][NextMCTS]_vars

----------------------------------------------------------------------------
(* Properties of MCTS.search *)

Searching == mcts.pc \in {"loop", "done"}
Returned == mcts.pc = "done"

\* The children of the root, as nodes
RootChildren == { Append(Root, action) : action \in Range(tree[Root].children) }

\* The sum of the visit counts of a set of nodes
RECURSIVE SumVisits(_)
SumVisits(nodes) ==
  IF nodes = {} THEN 0
  ELSE LET node == CHOOSE x \in nodes : TRUE
       IN tree[node].numVisits + SumVisits(nodes \ {node})

\* C6: on a non-terminal state with exactly one legal action, MCTS.search
\* returns that action for every maxIteration and maxTimeSec, budgets of
\* zero or one iteration included.
C6_SingleActionReturned ==
  (Returned /\ Len(MNK_getActions(game)) = 1)
    => (mcts.ret.raised = "" /\ mcts.ret.action = MNK_getActions(game)[1])

\* The part of C6 the code keeps: once the root was expanded, that is after
\* two iterations with at least one rollout each, the single action is
\* returned.
C6_SingleActionAfterExpansion ==
  (Returned /\ Len(MNK_getActions(game)) = 1
     /\ mcts.iterCnt >= 2 /\ mcts.simPerIter >= 1)
    => (mcts.ret.raised = "" /\ mcts.ret.action = MNK_getActions(game)[1])

\* C7: during one search with simPerIter = s, after every completed
\* oneIteration the root's numVisits is iterCnt * s, iterCnt is at most
\* maxIteration, and the visit counts of the root's children add up to at
\* most the root's.
C7_VisitCounts ==
  Searching =>
    /\ tree[Root].numVisits = mcts.iterCnt * mcts.simPerIter
    /\ mcts.iterCnt <= mcts.maxIter
    /\ SumVisits(RootChildren) <= tree[Root].numVisits

\* Three iterations of two rollouts each, two of them below the root
C7_Witness ==
  /\ Returned /\ mcts.iterCnt = 3 /\ mcts.simPerIter = 2
  /\ tree[Root].numVisits = 6
  /\ SumVisits(RootChildren) = 4
  /\ \E c1, c2 \in RootChildren :
       c1 # c2 /\ tree[c1].numVisits = 2 /\ tree[c2].numVisits = 2

\* The game configuration of a state object
Configuration(state) ==
  << state.board, state.playerSignsRotation, state.remainingMoves,
     state.lastAction >>

\* C8: when search has returned, the state object passed to it (the one the
\* root node holds) has the board, the turn order, the remaining-move count
\* and the last action it had when the call was made.
C8_InputStateKept ==
  Returned => Configuration(tree[Root].state) = Configuration(game)

\* A search that expanded the root and a child of it and ran rollouts from
\* the root, from a child and from a grandchild
C8_Witness ==
  /\ Returned /\ mcts.iterCnt = 3 /\ mcts.simPerIter >= 1
  /\ game.remainingMoves >= 3
  /\ \E c \in RootChildren : Len(tree[c].children) > 0
  /\ Configuration(tree[Root].state) = Configuration(game)

\* The expected value of a root child, a/(n + epsilon), as the pair of a
\* and n*EpsilonInv + 1: a is 0 for a child never backpropagated to, else
\* the sum of its accumulated value over the selected indices (all of them
\* when none is selected)
ChildValue(node) ==
  LET u == tree[node].utilities
      idx == IF mcts.utilityIdx = << >> THEN 1..Len(u)
             ELSE { mcts.utilityIdx[j] + 1 : j \in 1..Len(mcts.utilityIdx) }
      a == IF u = << >> THEN 0
           ELSE IF idx = {1} THEN u[1]
           ELSE IF idx = {2} THEN u[2]
           ELSE IF idx = {1, 2} THEN u[1] + u[2]
           ELSE u[1] + u[2] + u[3]
  IN << a, tree[node].numVisits * 100000 + 1 >>

\* a/b <= c/d for positive b and d
ValueLeq(x, y) == x[1] * y[2] <= y[1] * x[2]

\* The root children of maximal expected value
MaximalChildren ==
  { c \in RootChildren : \A d \in RootChildren : ValueLeq(ChildValue(d), ChildValue(c)) }

\* C10: the actions handed to breakTies are exactly the root children of
\* maximal expected value, each once, and the action returned is one
\* breakTies picks among them.
C10_BestActionsAreArgmax ==
  Returned =>
    /\ { Append(Root, action) : action \in Range(mcts.bestActions) } = MaximalChildren
    /\ Len(mcts.bestActions) = Cardinality(Range(mcts.bestActions))
    /\ mcts.bestActions # << >> =>
         /\ mcts.ret.raised = ""
         /\ mcts.ret.action \in Range(mcts.bestActions)

\* Several visited children tie for the maximum and other children are
\* below it
C10_Witness ==
  /\ Returned
  /\ Len(mcts.bestActions) >= 2
  /\ Len(mcts.bestActions) < Len(tree[Root].children)
  /\ \A action \in Range(mcts.bestActions) :
       tree[Append(Root, action)].numVisits > 0
  /\ mcts.ret.action \in Range(mcts.bestActions)

\* The nodes of the tree, and whether a node has children
Nodes == DOMAIN tree
HasChildren(t, node) == Len(t[node].children) > 0

\* A node is either without children or has one child per action of the
\* expansion policy for its state, in its order, each holding the state the
\* action leads to
FullyExpanded(node) ==
  HasChildren(tree, node) =>
     /\ tree[node].children = MCTS_expansionPolicy(tree[node].state)
     /\ \A i \in 1..Len(tree[node].children) :
           LET action == tree[node].children[i]
           IN /\ Append(node, action) \in Nodes
              /\ Configuration(tree[Append(node, action)].state) =
                   Configuration(MNK_takeAction(tree[node].state, action, TRUE).ret)

\* No node that was never visited or holds a terminal state has children
ExpandedWereVisited ==
  \A node \in Nodes :
     HasChildren(tree, node) =>
        tree[node].numVisits > 0 /\ ~MNK_isTerminal(tree[node].state).ret

\* The step is an iteration of the search loop
IterationStep == mcts.pc = "loop" /\ mcts'.iterCnt = mcts.iterCnt + 1

\* The selected leaf is to be expanded (line 90)
Expandable(node) ==
  tree[node].numVisits > 0 /\ ~MNK_isTerminal(tree[node].state).ret

\* In an iteration only the selected leaf can get children, it gets them
\* exactly when it was visited and is not terminal, and the rollouts then
\* start from the child of the first action, otherwise from the leaf
ExpansionStep ==
  IterationStep =>
     /\ \A node \in DOMAIN tree' :
           (HasChildren(tree', node) /\ (node \notin Nodes \/ ~HasChildren(tree, node)))
              => node = mcts'.leaf
     /\ mcts'.leaf \in Nodes /\ ~HasChildren(tree, mcts'.leaf)
     /\ HasChildren(tree', mcts'.leaf) <=> Expandable(mcts'.leaf)
     /\ mcts'.node = IF Expandable(mcts'.leaf)
                     THEN Append(mcts'.leaf,
                                 MCTS_expansionPolicy(tree[mcts'.leaf].state)[1])
                     ELSE mcts'.leaf

\* C24: every node of the tree has no children or exactly one child per
\* action of the expansion policy for its state; a node gets children only
\* in an iteration in which it was the selected leaf, visited and not
\* terminal; an unvisited or terminal node is never expanded; and in the
\* expanding iteration the rollouts start from the child of the first action.
C24_ExpansionAllOrNothing ==
  /\ [](Searching => (ExpandedWereVisited /\ \A node \in Nodes : FullyExpanded(node)))
  /\ [][ExpansionStep]_vars

\* C24 witness: the root and one of its children are expanded, the child
\* having several children of which only the first was rolled out from.
C24_Witness ==
  /\ Searching /\ mcts.simPerIter > 0 /\ Len(mcts.leaf) = 1 /\ Len(mcts.node) = 2
  /\ Len(tree[mcts.leaf].children) > 1
  /\ mcts.node = Append(mcts.leaf, tree[mcts.leaf].children[1])
  /\ tree[mcts.node].numVisits = mcts.simPerIter
  /\ \A i \in 2..Len(tree[mcts.leaf].children) :
        tree[Append(mcts.leaf, tree[mcts.leaf].children[i])].numVisits = 0

\* node is start or an ancestor of it
OnPathToRoot(node, start) ==
  Len(node) <= Len(start) /\ SubSeq(start, 1, Len(node)) = node

\* The utilities of the rollouts started at the nodes of a set, one after
\* the other
RECURSIVE RolloutsAt(_)
RolloutsAt(starts) ==
  IF starts = {} THEN << >>
  ELSE LET start == CHOOSE x \in starts : TRUE
       IN mcts.rollouts[start] \o RolloutsAt(starts \ {start})

\* The utilities of the rollouts started at a node or below it
RolloutsBelow(node) ==
  RolloutsAt({ start \in DOMAIN mcts.rollouts : OnPathToRoot(node, start) })

\* The elementwise sum of a non-empty sequence of utility vectors
RECURSIVE VectorSum(_)
VectorSum(us) ==
  IF Len(us) = 1 THEN us[1]
  ELSE LET rest == VectorSum(Tail(us))
       IN [i \in 1..Len(us[1]) |-> us[1][i] + rest[i]]

\* A node's counters are those of the rollouts started at it or below it
CountsRollouts(node) ==
  LET us == RolloutsBelow(node)
  IN /\ tree[node].numVisits = Len(us)
     /\ tree[node].utilities = IF Len(us) = 0 THEN NoUtilities ELSE VectorSum(us)

\* An iteration leaves the counters of the nodes off the path from the
\* rollouts' start node to the root as they were, and new nodes off the path
\* have none
OffPathUnchanged ==
  IterationStep =>
     \A node \in DOMAIN tree' :
        ~OnPathToRoot(node, mcts'.node) =>
           IF node \in Nodes
           THEN /\ tree'[node].numVisits = tree[node].numVisits
                /\ tree'[node].utilities = tree[node].utilities
           ELSE /\ tree'[node].numVisits = 0
                /\ tree'[node].utilities = NoUtilities

\* C25: after any number of iterations every node's visit count is the
\* number of rollouts started at it or at a descendant and its utilities are
\* the elementwise sum of the utilities of those rollouts (None when there
\* were none); the backpropagations of an iteration change only the nodes on
\* the path from the rollouts' start node to the root.
C25_CountersAreRolloutSums ==
  /\ [](Searching => \A node \in Nodes : CountsRollouts(node))
  /\ [][OffPathUnchanged]_vars

\* C25 witness: rollouts were started at the root, at a child and at a
\* grandchild, two of them at one node with utilities that differ, and a
\* sibling of the start node was left without a visit.
C25_Witness ==
  /\ Searching /\ mcts.iterCnt = 3 /\ mcts.simPerIter = 2
  /\ \E n1, n2 \in DOMAIN mcts.rollouts :
        /\ Len(n1) = 1 /\ Len(n2) = 2 /\ OnPathToRoot(n1, n2)
        /\ mcts.rollouts[n2][1] # mcts.rollouts[n2][2]
        /\ tree[n1].numVisits = 4 /\ tree[Root].numVisits = 6
  /\ \E node \in Nodes : Len(node) = 2 /\ tree[node].numVisits = 0

\* The nodes selection called the selection policy on before it returned
\* `leaf`: the nodes it descended through, from the root on
PolicyCalledOn(leaf) == { SubSeq(leaf, 1, n) : n \in 0..(Len(leaf) - 1) }

\* Selection returned a leaf, having called the policy only on nodes that
\* are no leaves, have a child and were visited
SelectionStep ==
  IterationStep =>
     /\ mcts'.leaf \in Nodes /\ isLeaf(tree, mcts'.leaf)
     /\ \A node \in PolicyCalledOn(mcts'.leaf) :
           /\ ~isLeaf(tree, node)
           /\ Len(tree[node].children) >= 1
           /\ tree[node].numVisits >= 1

\* C26: whenever selection calls the selection policy on a node, the node
\* has at least one child and numVisits >= 1 (so the logarithm of line 45 is
\* never taken of 0), and selection stops at the first node without
\* children or with a terminal state.
C26_PolicyOnVisitedInnerNodes ==
  [][SelectionStep]_vars

\* C26 witness: selection went through the root and a child of it, both
\* visited, and returned a grandchild.
C26_Witness ==
  /\ Searching /\ Len(mcts.leaf) = 2
  /\ tree[Root].numVisits = 4
  /\ tree[SubSeq(mcts.leaf, 1, 1)].numVisits >= 2
  /\ tree[mcts.leaf].numVisits = 1

----------------------------------------------------------------------------
(* Searches long enough for selection to descend below the root's          *)
(* children: the caller calls search on a new game with at most one        *)
(* rollout per iteration and up to MaxIterDeep iterations.                 *)

MaxIterDeep == 4

\* The games searched: m, n, k and the player signs
ConfigsDeep ==
  { [m |-> 2, n |-> 2, k |-> 2, playerSigns |-> << "X", "O", "Z" >>],
    [m |-> 2, n |-> 3, k |-> 2, playerSigns |-> << "X", "O" >>] }

InitMCTSDeep ==
  /\ \E c \in ConfigsDeep : game = MNK_New(c.m, c.n, c.k, c.playerSigns)
  /\ tree = << >>
  /\ mcts = [pc |-> "caller", maxIter |-> 0, simPerIter |-> 0,
             utilityIdx |-> << >>, timeLeft |-> FALSE, iterCnt |-> 0,
             bestActions |-> << >>, ret |-> NoRet,
             leaf |-> Root, node |-> Root, rollouts |-> NoRollouts]
  /\ mnk = "unused"
  /\ IdleMinimax /\ IdleIDS

\* Lines 50-56: the call, with simPerIter() at most 1 and utilityIdx = None
SearchCallDeep ==
  /\ mcts.pc = "caller"
  /\ \E maxIteration \in 0..MaxIterDeep, simPerIter \in 0..1,
        maxTimePositive \in BOOLEAN :
       mcts' = [pc |-> "loop", maxIter |-> maxIteration, simPerIter |-> simPerIter,
                utilityIdx |-> << >>, timeLeft |-> maxTimePositive,
                iterCnt |-> 0, bestActions |-> << >>, ret |-> NoRet,
                leaf |-> Root, node |-> Root, rollouts |-> NoRollouts]
  /\ tree' = (Root :> Node(game))
  /\ UNCHANGED << game, mnk, mmVars, idsVars >>

NextMCTSDeep == SearchCallDeep \/ OneIteration \/ SearchReturn

SpecMCTSDeep == InitMCTSDeep /\ [][NextMCTSDeep]_vars

----------------------------------------------------------------------------
(* The MNK object under its caller: a game is built and its methods are    *)
(* called in any order with any arguments, among them actions that are     *)
(* out of turn, on taken cells or just outside the board, and calls on     *)
(* terminal states.  The caller goes on with the state takeAction returns  *)
(* (state = state.takeAction(action)); a call that raises ends the        *)
(* caller, with the object it had.  The caller stops playing on a board    *)
(* with MaxMoves signs on it.                                              *)

MaxMoves == 5

\* The games built: m, n, k and the player signs
MnkConfigs ==
  { [m |-> 1, n |-> 1, k |-> 1, playerSigns |-> << "X", "O" >>],
    [m |-> 2, n |-> 2, k |-> 2, playerSigns |-> << "X", "O", "Z" >>],
    [m |-> 2, n |-> 2, k |-> 2, playerSigns |-> << "W", "X", "Y", "Z" >>],
    [m |-> 2, n |-> 3, k |-> 2, playerSigns |-> << "X", "O" >>],
    [m |-> 3, n |-> 3, k |-> 2, playerSigns |-> << "X", "O" >>],
    [m |-> 3, n |-> 3, k |-> 3, playerSigns |-> << "X", "O" >>] }

\* The cells of the actions tried: the board and one cell beyond each edge
TriedCells(state) ==
  ((0..(state.m - 1)) \X (0..(state.n - 1)))
    \cup { << 0 - 1, 0 >>, << state.m, 0 >>, << 0, 0 - 1 >>, << 0, state.n >> }

\* What is recorded of a call: `before` is the object before it
MnkCall(op, action, before, ret, raised) ==
  [op |-> op, action |-> action, before |-> before, ret |-> ret,
   raised |-> raised]

InitMNK ==
  /\ \E c \in MnkConfigs :
       /\ game = MNK_New(c.m, c.n, c.k, c.playerSigns)
       /\ mnk = MnkCall("__init__", NoLastAction, game, FALSE, FALSE)
  /\ tree = << >> /\ mcts = "unused"
  /\ IdleMinimax /\ IdleIDS

\* state.getActions()
MnkGetActions ==
  /\ ~mnk.raised
  /\ mnk' = MnkCall("getActions", NoLastAction, game,
                    MNK_getActions(game), FALSE)
  /\ UNCHANGED << game, tree, mcts, mmVars, idsVars >>

\* state.isTerminal()
MnkIsTerminal ==
  /\ ~mnk.raised
  /\ \E r \in {MNK_isTerminal(game)} :
       /\ mnk' = MnkCall("isTerminal", NoLastAction, game, r.ret, FALSE)
       /\ game' = r.self
  /\ UNCHANGED << tree, mcts, mmVars, idsVars >>

\* state.getReward()
MnkGetReward ==
  /\ ~mnk.raised
  /\ \E r \in {MNK_getReward(game)} :
       /\ mnk' = MnkCall("getReward", NoLastAction, game, r.ret, r.raised)
       /\ game' = r.self
  /\ UNCHANGED << tree, mcts, mmVars, idsVars >>

\* state = state.takeAction(action, preserveState)
MnkTakeAction ==
  /\ ~mnk.raised
  /\ game.m * game.n - game.remainingMoves < MaxMoves
  /\ \E playerSign \in Range(game.playerSigns), cell \in TriedCells(game),
        preserveState \in BOOLEAN :
       \E r \in {MNK_takeAction(game, MNKAction(playerSign, cell[1], cell[2]),
                                preserveState)} :
         /\ mnk' = MnkCall("takeAction", MNKAction(playerSign, cell[1], cell[2]),
                           game, r.ret, r.raised)
         /\ game' = IF r.raised THEN r.self ELSE r.ret
  /\ UNCHANGED << tree, mcts, mmVars, idsVars >>

NextMNK == MnkGetActions \/ MnkIsTerminal \/ MnkGetReward \/ MnkTakeAction

SpecMNK == InitMNK /\ [][NextMNK]_vars

----------------------------------------------------------------------------
(* Properties of MNK.  `game` is reached from the initial state by legal   *)
(* moves only, since a call that raises changes no board.                  *)

\* The signs on the board, as the rules of the game see them
InBoard(state, i, j) == i \in 0..(state.m - 1) /\ j \in 0..(state.n - 1)
Directions == { << 0, 1 >>, << 1, 0 >>, << 1, 1 >>, << 1, 0 - 1 >> }

\* k consecutive cells of `sign` in a row, a column or a diagonal
HasLine(state, sign) ==
  \E i \in 0..(state.m - 1), j \in 0..(state.n - 1), d \in Directions :
    \A step \in 0..(state.k - 1) :
      /\ InBoard(state, i + step * d[1], j + step * d[2])
      /\ state.board[i + step * d[1]][j + step * d[2]] = sign

NoEmptyCell(state) ==
  \A i \in 0..(state.m - 1), j \in 0..(state.n - 1) :
    state.board[i][j] # state.emptySign

LastMoverHasLine(state) == HasLine(state, state.lastAction.playerSign)
Over(state) == LastMoverHasLine(state) \/ NoEmptyCell(state)

ZeroReward(state) == [i \in 1..Len(state.playerSigns) |-> 0]
WinReward(state) ==
  [i \in 1..Len(state.playerSigns) |->
     IF state.playerSigns[i] = state.lastAction.playerSign THEN 1 ELSE 0 - 1]

\* C11: in a reachable state that is not terminal, getActions returns a
\* non-empty list, no two of its actions are on the same cell, each names
\* the current player, and takeAction raises on none of them.
C11_ActionsLegal ==
  /\ (mnk.op = "getActions" /\ ~MNK_isTerminal(game).ret) =>
       /\ Len(mnk.ret) > 0
       /\ \A i, j \in 1..Len(mnk.ret) :
            i # j => << mnk.ret[i].m, mnk.ret[i].n >> # << mnk.ret[j].m, mnk.ret[j].n >>
       /\ \A i \in 1..Len(mnk.ret) :
            mnk.ret[i].playerSign = game.playerSignsRotation[1]
  /\ (mnk.op = "takeAction" /\ ~MNK_isTerminal(mnk.before).ret
        /\ mnk.action \in Range(MNK_getActions(mnk.before)))
       => ~mnk.raised

\* The fifth sign was put on a 3x3 board with an action of getActions, and
\* the game is still on
C11_Witness ==
  /\ mnk.op = "takeAction" /\ ~mnk.raised
  /\ mnk.action \in Range(MNK_getActions(mnk.before))
  /\ game.m = 3 /\ game.remainingMoves = 4
  /\ ~MNK_isTerminal(game).ret
  /\ Len(MNK_getActions(game)) = 4

\* C12: takeAction raises, and leaves board, rotation, remaining moves and
\* last action as they were, when the state is terminal, the cell is out of
\* bounds or taken, or the action is another player's than the one to move.
C12_IllegalRaises ==
  (mnk.op = "takeAction"
     /\ \/ Over(mnk.before)
        \/ ~InBoard(mnk.before, mnk.action.m, mnk.action.n)
        \/ mnk.before.board[mnk.action.m][mnk.action.n] # mnk.before.emptySign
        \/ mnk.action.playerSign # mnk.before.playerSignsRotation[1])
    => /\ mnk.raised
       /\ Configuration(game) = Configuration(mnk.before)

\* An action out of turn on an empty cell of a game that is still on
C12_Witness ==
  /\ mnk.op = "takeAction" /\ mnk.raised
  /\ ~Over(mnk.before)
  /\ mnk.before.remainingMoves = 3
  /\ InBoard(mnk.before, mnk.action.m, mnk.action.n)
  /\ mnk.before.board[mnk.action.m][mnk.action.n] = mnk.before.emptySign
  /\ mnk.action.playerSign # mnk.before.playerSignsRotation[1]

\* C13: isTerminal() is true exactly when the last mover has k consecutive
\* signs in a row, a column or a diagonal or no cell is empty; the reward
\* is then +1 for the mover and -1 for the others if there is such a line
\* and all zeros if there is none; an empty 3x3 board has 9 actions.
C13_TerminalIffLineOrFull ==
  /\ mnk.op = "isTerminal" =>
       /\ mnk.ret = Over(mnk.before)
       /\ LastMoverHasLine(game) => game.reward = WinReward(game)
       /\ (NoEmptyCell(game) /\ ~LastMoverHasLine(game))
            => game.reward = ZeroReward(game)
  /\ (mnk.op = "getReward" /\ ~mnk.raised /\ Over(mnk.before)) =>
       mnk.ret = IF LastMoverHasLine(mnk.before) THEN WinReward(mnk.before)
                 ELSE ZeroReward(mnk.before)
  /\ (mnk.op = "getActions" /\ mnk.before.m = 3 /\ mnk.before.n = 3
        /\ mnk.before.remainingMoves = 9) => Len(mnk.ret) = 9

\* isTerminal() was called on the 3x3, k = 3 board whose first row X has
\* just filled
C13_Witness ==
  /\ mnk.op = "isTerminal" /\ mnk.ret = TRUE
  /\ game.m = 3 /\ game.k = 3
  /\ \A j \in 0..2 : game.board[0][j] = "X"
  /\ game.lastAction.playerSign = "X"
  /\ game.reward = << 1, 0 - 1 >>

\* isTerminal() was called on a full board without a line
C13_DrawReached ==
  /\ mnk.op = "isTerminal" /\ mnk.ret = TRUE
  /\ NoEmptyCell(game) /\ ~LastMoverHasLine(game)
  /\ game.reward = ZeroReward(game)

\* C14: in a reachable state without a decided outcome, the initial state
\* included, getReward returns the all-zero vector and raises no error.
C14_RewardZeroNoError ==
  (mnk.op = "getReward" /\ ~Over(mnk.before))
    => (~mnk.raised /\ mnk.ret = ZeroReward(mnk.before))

\* The part of C14 the code keeps: once an action was taken, getReward
\* returns the all-zero vector while no outcome is decided.
C14_RewardZeroAfterFirstAction ==
  (mnk.op = "getReward" /\ ~Over(mnk.before)
     /\ mnk.before.lastAction # NoLastAction)
    => (~mnk.raised /\ mnk.ret = ZeroReward(mnk.before))

====
